---- MODULE Spec2Model ----
(***************************************************************************)
(* A model of google-slide-manager: one command-line invocation that       *)
(* fetches a snapshot of a remote presentation, resolves ordinals against  *)
(* it, assembles a batch of primitive edits and submits it, or walks the   *)
(* snapshot's element tree for text and notes.                             *)
(*                                                                         *)
(* Go strings are modelled as sequences of one-character strings, so that  *)
(* parsing, formatting, trimming, splitting and searching are computed as  *)
(* the code computes them.  A nil pointer is the record Nil.               *)
(***************************************************************************)
EXTENDS Integers, Sequences, FiniteSets, TLC

\* ------------------------------------------------------------------ bounds

\* The largest number of slides a presentation of the model holds.
MaxSlides == 4

\* The largest number of comma-separated tokens of a reorder list.
MaxList == 3

\* Clock readings are 0..MaxClock.
MaxClock == 2

\* The largest number of generateObjectID calls of one process (SpecIds).
MaxCalls == 3

\* How many batches the remote service serves before the last command of a
\* sequence of commands (SpecText).
MaxServed == 2

\* ------------------------------------------------------------- Go strings

Nil == [nil |-> TRUE]

Digits == <<"0", "1", "2", "3", "4", "5", "6", "7", "8", "9">>

DigitSet == {Digits[i] : i \in 1..Len(Digits)}

DigitVal(c) == (CHOOSE i \in 1..Len(Digits) : Digits[i] = c) - 1

RECURSIVE Flatten(_)
\* strings.Builder: the concatenation of a sequence of strings, in order.
Flatten(ss) == IF ss = <<>> THEN <<>> ELSE Head(ss) \o Flatten(Tail(ss))

RECURSIVE FormatNat(_)
FormatNat(n) ==
    IF n < 10 THEN <<Digits[n + 1]>>
    ELSE FormatNat(n \div 10) \o <<Digits[(n % 10) + 1]>>

\* fmt's %d verb.
FormatInt(n) == IF n < 0 THEN <<"-">> \o FormatNat(-n) ELSE FormatNat(n)

RECURSIVE ParseNat(_, _)
ParseNat(s, acc) ==
    IF s = <<>> THEN acc ELSE ParseNat(Tail(s), (acc * 10) + DigitVal(Head(s)))

\* strconv.Atoi: an optional sign, then one or more decimal digits; anything
\* else (the empty string, blanks, letters) is an error.
Atoi(s) ==
    LET signed == s # <<>> /\ Head(s) \in {"+", "-"}
        body == IF signed THEN Tail(s) ELSE s
    IN  IF body = <<>> \/ \E i \in 1..Len(body) : body[i] \notin DigitSet
        THEN [err |-> TRUE, val |-> 0]
        ELSE [err |-> FALSE,
              val |-> IF signed /\ Head(s) = "-"
                      THEN -ParseNat(body, 0) ELSE ParseNat(body, 0)]

\* unicode.IsSpace, on the characters of the model's alphabet.
IsSpace(c) == c \in {" ", "\t", "\n", "\r", "\f"}

RECURSIVE TrimLeft(_)
TrimLeft(s) == IF s # <<>> /\ IsSpace(Head(s)) THEN TrimLeft(Tail(s)) ELSE s

RECURSIVE TrimRight(_)
TrimRight(s) ==
    IF s # <<>> /\ IsSpace(s[Len(s)]) THEN TrimRight(SubSeq(s, 1, Len(s) - 1))
    ELSE s

\* Trimming that leaves the white space at the end.
TrimSpaceAtFrontOnly(s) == TrimLeft(s)

\* strings.TrimSpace
TrimSpace(s) == TrimRight(TrimLeft(s))

RECURSIVE SplitFrom(_, _, _)
SplitFrom(s, sep, cur) ==
    IF s = <<>> THEN <<cur>>
    ELSE IF Head(s) = sep THEN <<cur>> \o SplitFrom(Tail(s), sep, <<>>)
    ELSE SplitFrom(Tail(s), sep, Append(cur, Head(s)))

\* A split that finds no token in the empty string.
SplitFields(s, sep) == IF s = <<>> THEN <<>> ELSE SplitFrom(s, sep, <<>>)

\* strings.Split on a one-character separator: "" splits into <<"">>.
Split(s, sep) == SplitFrom(s, sep, <<>>)

Upper == <<"A", "B", "C", "D", "E", "F", "G", "H", "I", "J", "K", "L", "M",
           "N", "O", "P", "Q", "R", "S", "T", "U", "V", "W", "X", "Y", "Z">>

Lower == <<"a", "b", "c", "d", "e", "f", "g", "h", "i", "j", "k", "l", "m",
           "n", "o", "p", "q", "r", "s", "t", "u", "v", "w", "x", "y", "z">>

LowerChar(c) ==
    IF \E i \in 1..Len(Upper) : Upper[i] = c
    THEN Lower[CHOOSE i \in 1..Len(Upper) : Upper[i] = c]
    ELSE c

RECURSIVE ToLower(_)
\* strings.ToLower
ToLower(s) == IF s = <<>> THEN <<>> ELSE <<LowerChar(Head(s))>> \o ToLower(Tail(s))

\* strings.Contains: substr occurs in s as a contiguous substring.
Contains(s, substr) ==
    \E i \in 0..(Len(s) - Len(substr)) :
        SubSeq(s, i + 1, i + Len(substr)) = substr

\* --------------------------------------------------- the remote document

\* A text element that is a text run, and one that is not (a paragraph
\* marker): TextRun is nil there.
Run(content) == [TextRun |-> [Content |-> content]]

Para == [TextRun |-> Nil]

\* Page elements: a shape with a text body, a shape without one, and elements
\* that are no shape (a table with one cell of text, a group, an image).
TextShape(id, els) ==
    [ObjectId |-> id, Shape |-> [Text |-> [TextElements |-> els]],
     Table |-> Nil, ElementGroup |-> Nil]

BareShape(id) ==
    [ObjectId |-> id, Shape |-> [Text |-> Nil], Table |-> Nil, ElementGroup |-> Nil]

TableElement(id, els) ==
    [ObjectId |-> id, Shape |-> Nil,
     Table |-> [TableRows |-> <<[TableCells |-> <<[Text |-> [TextElements |-> els]]>>]>>],
     ElementGroup |-> Nil]

GroupElement(id, children) ==
    [ObjectId |-> id, Shape |-> Nil, Table |-> Nil,
     ElementGroup |-> [Children |-> children]]

ImageElement(id) ==
    [ObjectId |-> id, Shape |-> Nil, Table |-> Nil, ElementGroup |-> Nil]

NotesPageOf(id, els) == [ObjectId |-> id, PageElements |-> els]

SlidePage(id, els, notes) ==
    [ObjectId |-> id, PageElements |-> els,
     SlideProperties |-> [NotesPage |-> notes]]

Hello == <<"H", "e", "l", "l", "o">>

World == <<"W", "o", "r", "l", "d">>

RememberThis ==
    <<" ", " ", "r", "e", "m", "e", "m", "b", "e", "r", " ", "t", "h", "i", "s", " ", " ">>

\* The content of each slide, as the remote service returns it.
Page(id) ==
    CASE id = "p" ->
            SlidePage("p", <<TextShape("p_body", <<Run(Hello)>>)>>,
                      NotesPageOf("p_notes", <<TextShape("p_speaker", <<Run(RememberThis)>>)>>))
      [] id = "q" ->
            SlidePage("q", <<TextShape("q_body", <<Run(World)>>)>>, Nil)
      [] id = "r" ->
            SlidePage("r",
                      <<TextShape("r_body", <<Para, Run(<<"l", "o", " ">>), Run(<<"W", "o">>)>>),
                        TableElement("r_table", <<Run(World)>>),
                        BareShape("r_bare"),
                        GroupElement("r_group", <<TextShape("r_child", <<Run(Hello)>>)>>)>>,
                      NotesPageOf("r_notes", <<TextShape("r_speaker", <<Run(<<"\n">>)>>)>>))
      [] id = "s" ->
            SlidePage("s", <<>>,
                      NotesPageOf("s_notes",
                                  <<ImageElement("s_image"),
                                    BareShape("s_bare"),
                                    TextShape("s_speaker", <<Run(<<"a", " ">>), Run(<<" ", "b">>)>>)>>))
      [] OTHER ->
            SlidePage("t",
                      <<TextShape("t_title", <<Run(<<"h", "E", "L", "L", "O">>)>>),
                        TextShape("t_body", <<Run(<<"W", "O", "R", "K">>), Para>>)>>,
                      NotesPageOf("t_notes", <<>>))

\* The slides in one circular arrangement.  A presentation of the model is a
\* run of it: any number of slides up to MaxSlides, from any slide on, in
\* either direction, so that every slide occurs at every position.
Arrangement == <<"p", "q", "r", "s", "t">>

Window(start, n, dir) ==
    [i \in 1..n |->
        Arrangement[((start - 1 + (dir * (i - 1)) + (n * Len(Arrangement)))
                     % Len(Arrangement)) + 1]]

Documents ==
    {Window(start, n, dir) :
        start \in 1..Len(Arrangement),
        n \in {k \in 0..MaxSlides : k <= Len(Arrangement)},
        dir \in {1, -1}}

\* Presentations.Get(...).Do() on success: the snapshot of the document.
Snapshot(doc) == [Slides |-> [i \in 1..Len(doc) |-> Page(doc[i])]]

\* ------------------------------------------------- calls and call results

\* The remote calls a service method makes, in order.  A snapshot fetch that
\* succeeds hands back the document as it is then; one that fails, an error.
GetCall(doc) == [op |-> "Presentations.Get", ok |-> TRUE, snapshot |-> doc]

GetFailed == [op |-> "Presentations.Get", ok |-> FALSE, snapshot |-> <<>>]

\* A batch submission, and whether the remote service applied it.
BatchCall(requests, accepted) ==
    [op |-> "Presentations.BatchUpdate", Requests |-> requests, accepted |-> accepted]

\* What a service method hands back: a value and a nil error, a non-nil
\* error (its static message), or a run-time panic that ends the process.
Returned(value, made) == [status |-> "ok", err |-> "", value |-> value, calls |-> made]

Failed(message, made) == [status |-> "error", err |-> message, value |-> Nil, calls |-> made]

Panicked(made) ==
    [status |-> "panic", err |-> "runtime error: index out of range",
     value |-> Nil, calls |-> made]

NotCalled == [status |-> "none", err |-> "", value |-> Nil, calls |-> <<>>]

\* A submission that tries a rejected batch a second time before giving up.
SubmitRetrying(made, requests, batchOk, message, value) ==
    IF batchOk THEN Returned(value, Append(made, BatchCall(requests, TRUE)))
    ELSE Failed(message, made \o <<BatchCall(requests, FALSE), BatchCall(requests, FALSE)>>)

\* Presentations.BatchUpdate(...).Do() after the calls `made`, and the
\* method's last lines: the wrapped error when the service rejects the batch,
\* the method's value otherwise.
Submit(made, requests, batchOk, message, value) ==
    IF batchOk THEN Returned(value, Append(made, BatchCall(requests, TRUE)))
    ELSE Failed(message, Append(made, BatchCall(requests, FALSE)))

\* ------------------------------------------------------------ package text

RECURSIVE RunsText(_)
\* The inner loop over Text.TextElements: the content of every text run, in
\* order; text elements that are no run add nothing.
RunsText(els) ==
    IF els = <<>> THEN <<>>
    ELSE (IF Head(els).TextRun # Nil THEN Head(els).TextRun.Content ELSE <<>>)
         \o RunsText(Tail(els))

\* What ExtractAll writes for one page element.
ElementText(element) ==
    IF element.Shape # Nil /\ element.Shape.Text # Nil
    THEN RunsText(element.Shape.Text.TextElements) \o <<"\n">>
    ELSE <<>>

\* What ExtractAll writes for one slide: its elements, then the delimiter.
SlideText(slide) ==
    Flatten([i \in 1..Len(slide.PageElements) |-> ElementText(slide.PageElements[i])])
    \o <<"\n", "-", "-", "-", "\n", "\n">>

\* ExtractAll with the delimiter between slides only, none after the last.
TextExtractAllJoined(doc, getOk) ==
    IF ~getOk THEN Failed("error getting presentation", <<GetFailed>>)
    ELSE LET presentation == Snapshot(doc)
             n == Len(presentation.Slides)
             whole == Flatten([i \in 1..n |-> SlideText(presentation.Slides[i])])
         IN  Returned(IF n = 0 THEN whole ELSE SubSeq(whole, 1, Len(whole) - 6),
                      <<GetCall(doc)>>)

\* text.Service.ExtractAll
TextExtractAll(doc, getOk) ==
    IF ~getOk THEN Failed("error getting presentation", <<GetFailed>>)
    ELSE LET presentation == Snapshot(doc)
         IN  Returned(Flatten([i \in 1..Len(presentation.Slides) |->
                                  SlideText(presentation.Slides[i])]),
                      <<GetCall(doc)>>)

RECURSIVE RunMatchesExactCase(_, _, _, _)
\* Search's inner loop with the letter case of run and query kept.
RunMatchesExactCase(slideIdx, element, els, query) ==
    IF els = <<>> THEN <<>>
    ELSE (IF Head(els).TextRun # Nil /\ Contains(Head(els).TextRun.Content, query)
          THEN <<[SlideIndex |-> slideIdx, ObjectID |-> element.ObjectId,
                  Text |-> Head(els).TextRun.Content]>>
          ELSE <<>>)
         \o RunMatchesExactCase(slideIdx, element, Tail(els), query)

RECURSIVE RunMatches(_, _, _, _)
\* Search's inner loop: one result per text run whose content contains the query.
RunMatches(slideIdx, element, els, query) ==
    IF els = <<>> THEN <<>>
    ELSE (IF Head(els).TextRun # Nil
             /\ Contains(ToLower(Head(els).TextRun.Content), ToLower(query))
          THEN <<[SlideIndex |-> slideIdx, ObjectID |-> element.ObjectId,
                  Text |-> Head(els).TextRun.Content]>>
          ELSE <<>>)
         \o RunMatches(slideIdx, element, Tail(els), query)

ElementMatches(slideIdx, element, query) ==
    IF element.Shape # Nil /\ element.Shape.Text # Nil
    THEN RunMatches(slideIdx, element, element.Shape.Text.TextElements, query)
    ELSE <<>>

SlideMatches(slideIdx, slide, query) ==
    Flatten([i \in 1..Len(slide.PageElements) |->
                ElementMatches(slideIdx, slide.PageElements[i], query)])

\* text.Service.Search
TextSearch(doc, getOk, query) ==
    IF ~getOk THEN Failed("error getting presentation", <<GetFailed>>)
    ELSE LET presentation == Snapshot(doc)
         IN  Returned(Flatten([i \in 1..Len(presentation.Slides) |->
                                  SlideMatches(i - 1, presentation.Slides[i], query)]),
                      <<GetCall(doc)>>)

\* ----------------------------------------------------------- package notes

\* The loop over a notes page's elements that Get and ExtractAll share.
NotesText(notesPage) ==
    Flatten([i \in 1..Len(notesPage.PageElements) |->
                LET element == notesPage.PageElements[i]
                IN  IF element.Shape # Nil /\ element.Shape.Text # Nil
                    THEN RunsText(element.Shape.Text.TextElements)
                    ELSE <<>>])

\* Get treating a slide without notes page the way Add does.
NotesGetStrict(doc, getOk, slideIndex) ==
    IF ~getOk THEN Failed("error getting presentation", <<GetFailed>>)
    ELSE LET presentation == Snapshot(doc)
         IN  IF slideIndex >= Len(presentation.Slides)
             THEN Failed("slide index out of range", <<GetCall(doc)>>)
             ELSE IF slideIndex < 0 THEN Panicked(<<GetCall(doc)>>)
             ELSE LET notesPage ==
                          presentation.Slides[slideIndex + 1].SlideProperties.NotesPage
                  IN  IF notesPage = Nil
                      THEN Failed("notes page not available", <<GetCall(doc)>>)
                      ELSE Returned(NotesText(notesPage), <<GetCall(doc)>>)

\* notes.Service.Get
NotesGet(doc, getOk, slideIndex) ==
    IF ~getOk THEN Failed("error getting presentation", <<GetFailed>>)
    ELSE LET presentation == Snapshot(doc)
         IN  IF slideIndex >= Len(presentation.Slides)
             THEN Failed("slide index out of range", <<GetCall(doc)>>)
             ELSE IF slideIndex < 0 THEN Panicked(<<GetCall(doc)>>)
             ELSE LET notesPage ==
                          presentation.Slides[slideIndex + 1].SlideProperties.NotesPage
                  IN  IF notesPage = Nil THEN Returned(<<>>, <<GetCall(doc)>>)
                      ELSE Returned(NotesText(notesPage), <<GetCall(doc)>>)

\* fmt.Sprintf("slide_%d", idx)
SlideKey(idx) == <<"s", "l", "i", "d", "e", "_">> \o FormatInt(idx)

\* The slides ExtractAll makes an entry for: a notes page whose text is not
\* empty before trimming.
HasNotesEntry(slide) ==
    /\ slide.SlideProperties.NotesPage # Nil
    /\ Len(NotesText(slide.SlideProperties.NotesPage)) > 0

\* notes.Service.ExtractAll: the map is a function from keys to texts.
NotesExtractAll(doc, getOk) ==
    IF ~getOk THEN Failed("error getting presentation", <<GetFailed>>)
    ELSE LET presentation == Snapshot(doc)
             kept == {i \in 1..Len(presentation.Slides) :
                         HasNotesEntry(presentation.Slides[i])}
             slideOf(k) == presentation.Slides[CHOOSE i \in kept : SlideKey(i - 1) = k]
         IN  Returned([k \in {SlideKey(i - 1) : i \in kept} |->
                          TrimSpace(NotesText(slideOf(k).SlideProperties.NotesPage))],
                      <<GetCall(doc)>>)

\* -------------------------------------------- packages slide, table, shape

\* fmt.Sprintf("%s_%d", prefix, time.Now().UnixNano()), `now` being the
\* clock reading.
generateObjectID(prefix, now) == prefix \o <<"_">> \o FormatInt(now)

SlidePrefix == <<"s", "l", "i", "d", "e">>

TablePrefix == <<"t", "a", "b", "l", "e">>

ShapePrefix == <<"s", "h", "a", "p", "e">>

\* slide.Service.Add.  A request is the Go struct: a field that is not set
\* holds its zero value.
SlideAdd(batchOk, layout, position, now) ==
    LET slideID == generateObjectID(SlidePrefix, now)
        requests == <<[kind |-> "CreateSlide", ObjectId |-> slideID,
                       PredefinedLayout |-> layout,
                       InsertionIndex |-> IF position >= 0 THEN position ELSE 0]>>
    IN  Submit(<<>>, requests, batchOk, "error adding slide", slideID)

\* slide.Service.Duplicate
SlideDuplicate(doc, getOk, batchOk, slideIndex) ==
    IF ~getOk THEN Failed("error getting presentation", <<GetFailed>>)
    ELSE LET presentation == Snapshot(doc)
         IN  IF slideIndex >= Len(presentation.Slides)
             THEN Failed("slide index out of range", <<GetCall(doc)>>)
             ELSE IF slideIndex < 0 THEN Panicked(<<GetCall(doc)>>)
             ELSE LET slideID == presentation.Slides[slideIndex + 1].ObjectId
                      requests == <<[kind |-> "DuplicateObject", ObjectId |-> slideID]>>
                  IN  Submit(<<GetCall(doc)>>, requests, batchOk,
                             "error duplicating slide", Nil)

\* Move with the snapshot fetched once for the range check and once more for
\* the identifier.
SlideMoveFetchingTwice(doc, getOk, batchOk, slideIndex, newPosition) ==
    IF ~getOk THEN Failed("error getting presentation", <<GetFailed>>)
    ELSE LET presentation == Snapshot(doc)
         IN  IF slideIndex >= Len(presentation.Slides)
             THEN Failed("slide index out of range", <<GetCall(doc)>>)
             ELSE IF slideIndex < 0 THEN Panicked(<<GetCall(doc)>>)
             ELSE LET slideID == presentation.Slides[slideIndex + 1].ObjectId
                      requests == <<[kind |-> "UpdateSlidesPosition",
                                     SlideObjectIds |-> <<slideID>>,
                                     InsertionIndex |-> newPosition]>>
                  IN  Submit(<<GetCall(doc), GetCall(doc)>>, requests, batchOk,
                             "error moving slide", Nil)

\* slide.Service.Move
SlideMove(doc, getOk, batchOk, slideIndex, newPosition) ==
    IF ~getOk THEN Failed("error getting presentation", <<GetFailed>>)
    ELSE LET presentation == Snapshot(doc)
         IN  IF slideIndex >= Len(presentation.Slides)
             THEN Failed("slide index out of range", <<GetCall(doc)>>)
             ELSE IF slideIndex < 0 THEN Panicked(<<GetCall(doc)>>)
             ELSE LET slideID == presentation.Slides[slideIndex + 1].ObjectId
                      requests == <<[kind |-> "UpdateSlidesPosition",
                                     SlideObjectIds |-> <<slideID>>,
                                     InsertionIndex |-> newPosition]>>
                  IN  Submit(<<GetCall(doc)>>, requests, batchOk, "error moving slide", Nil)

\* Remove with the index taken one slide too early.
SlideRemoveOneBefore(doc, getOk, batchOk, slideIndex) ==
    IF ~getOk THEN Failed("error getting presentation", <<GetFailed>>)
    ELSE LET presentation == Snapshot(doc)
         IN  IF slideIndex >= Len(presentation.Slides)
             THEN Failed("slide index out of range", <<GetCall(doc)>>)
             ELSE IF slideIndex < 0 THEN Panicked(<<GetCall(doc)>>)
             ELSE LET slideID ==
                          presentation.Slides[IF slideIndex = 0 THEN 1 ELSE slideIndex].ObjectId
                      requests == <<[kind |-> "DeleteObject", ObjectId |-> slideID]>>
                  IN  Submit(<<GetCall(doc)>>, requests, batchOk, "error removing slide", Nil)

\* slide.Service.Remove
SlideRemove(doc, getOk, batchOk, slideIndex) ==
    IF ~getOk THEN Failed("error getting presentation", <<GetFailed>>)
    ELSE LET presentation == Snapshot(doc)
         IN  IF slideIndex >= Len(presentation.Slides)
             THEN Failed("slide index out of range", <<GetCall(doc)>>)
             ELSE IF slideIndex < 0 THEN Panicked(<<GetCall(doc)>>)
             ELSE LET slideID == presentation.Slides[slideIndex + 1].ObjectId
                      requests == <<[kind |-> "DeleteObject", ObjectId |-> slideID]>>
                  IN  Submit(<<GetCall(doc)>>, requests, batchOk, "error removing slide", Nil)

RECURSIVE ParseIndices(_)
\* Reorder's first loop: every token trimmed and parsed, in order; the first
\* token that is no integer ends the method.
ParseIndices(tokens) ==
    IF tokens = <<>> THEN [err |-> FALSE, indices |-> <<>>]
    ELSE LET idx == Atoi(TrimSpace(Head(tokens)))
             rest == ParseIndices(Tail(tokens))
         IN  IF idx.err \/ rest.err THEN [err |-> TRUE, indices |-> <<>>]
             ELSE [err |-> FALSE, indices |-> <<idx.val>> \o rest.indices]

RECURSIVE ReorderRequestsInPlace(_, _, _)
\* Reorder's second loop with every slide sent back to where it was found.
ReorderRequestsInPlace(presentation, indices, newPosition) ==
    IF indices = <<>> THEN [status |-> "ok", requests |-> <<>>]
    ELSE LET oldIndex == Head(indices)
         IN  IF oldIndex >= Len(presentation.Slides)
             THEN [status |-> "error", requests |-> <<>>]
             ELSE IF oldIndex < 0 THEN [status |-> "panic", requests |-> <<>>]
             ELSE LET slideID == presentation.Slides[oldIndex + 1].ObjectId
                      rest == ReorderRequestsInPlace(presentation, Tail(indices),
                                                     newPosition + 1)
                  IN  IF rest.status # "ok" THEN rest
                      ELSE [status |-> "ok",
                            requests |-> <<[kind |-> "UpdateSlidesPosition",
                                            SlideObjectIds |-> <<slideID>>,
                                            InsertionIndex |-> oldIndex]>>
                                         \o rest.requests]

RECURSIVE ReorderRequestsBehind(_, _, _)
\* Reorder's second loop with every slide sent behind the position it is
\* listed at.
ReorderRequestsBehind(presentation, indices, newPosition) ==
    IF indices = <<>> THEN [status |-> "ok", requests |-> <<>>]
    ELSE LET oldIndex == Head(indices)
         IN  IF oldIndex >= Len(presentation.Slides)
             THEN [status |-> "error", requests |-> <<>>]
             ELSE IF oldIndex < 0 THEN [status |-> "panic", requests |-> <<>>]
             ELSE LET slideID == presentation.Slides[oldIndex + 1].ObjectId
                      rest == ReorderRequestsBehind(presentation, Tail(indices),
                                                    newPosition + 1)
                  IN  IF rest.status # "ok" THEN rest
                      ELSE [status |-> "ok",
                            requests |-> <<[kind |-> "UpdateSlidesPosition",
                                            SlideObjectIds |-> <<slideID>>,
                                            InsertionIndex |-> newPosition + 1]>>
                                         \o rest.requests]

RECURSIVE ReorderRequests(_, _, _)
\* Reorder's second loop, from newPosition on: one request per index, until an
\* index fails the range check (an error) or indexes below the slice (a panic).
ReorderRequests(presentation, indices, newPosition) ==
    IF indices = <<>> THEN [status |-> "ok", requests |-> <<>>]
    ELSE LET oldIndex == Head(indices)
         IN  IF oldIndex >= Len(presentation.Slides)
             THEN [status |-> "error", requests |-> <<>>]
             ELSE IF oldIndex < 0 THEN [status |-> "panic", requests |-> <<>>]
             ELSE LET slideID == presentation.Slides[oldIndex + 1].ObjectId
                      rest == ReorderRequests(presentation, Tail(indices), newPosition + 1)
                  IN  IF rest.status # "ok" THEN rest
                      ELSE [status |-> "ok",
                            requests |-> <<[kind |-> "UpdateSlidesPosition",
                                            SlideObjectIds |-> <<slideID>>,
                                            InsertionIndex |-> newPosition]>>
                                         \o rest.requests]

\* slide.Service.Reorder
SlideReorder(doc, getOk, batchOk, indicesStr) ==
    LET parsed == ParseIndices(Split(indicesStr, ","))
    IN  IF parsed.err THEN Failed("invalid index", <<>>)
        ELSE IF ~getOk THEN Failed("error getting presentation", <<GetFailed>>)
        ELSE LET built == ReorderRequests(Snapshot(doc), parsed.indices, 0)
             IN  CASE built.status = "error" ->
                        Failed("slide index %d out of range", <<GetCall(doc)>>)
                   [] built.status = "panic" -> Panicked(<<GetCall(doc)>>)
                   [] OTHER ->
                        Submit(<<GetCall(doc)>>, built.requests, batchOk,
                               "error reordering slides", Nil)

\* table.Service.Create
TableCreate(doc, getOk, batchOk, slideIndex, rows, cols, now) ==
    IF ~getOk THEN Failed("error getting presentation", <<GetFailed>>)
    ELSE LET presentation == Snapshot(doc)
         IN  IF slideIndex >= Len(presentation.Slides)
             THEN Failed("slide index out of range", <<GetCall(doc)>>)
             ELSE IF slideIndex < 0 THEN Panicked(<<GetCall(doc)>>)
             ELSE LET slideID == presentation.Slides[slideIndex + 1].ObjectId
                      tableID == generateObjectID(TablePrefix, now)
                      requests == <<[kind |-> "CreateTable", ObjectId |-> tableID,
                                     PageObjectId |-> slideID,
                                     Rows |-> rows, Columns |-> cols]>>
                  IN  Submit(<<GetCall(doc)>>, requests, batchOk, "error creating table", tableID)

\* table.Service.UpdateCell
TableUpdateCell(batchOk, tableID, row, col, text) ==
    Submit(<<>>,
           <<[kind |-> "InsertText", ObjectId |-> tableID,
              CellLocation |-> [RowIndex |-> row, ColumnIndex |-> col],
              Text |-> text, InsertionIndex |-> 0]>>,
           batchOk, "error updating cell", Nil)

\* Add submitting its batch, with no page named, before it checks the index.
ShapeAddSubmittingUnchecked(doc, getOk, batchOk, slideIndex, shapeType, now) ==
    IF ~getOk THEN Failed("error getting presentation", <<GetFailed>>)
    ELSE LET presentation == Snapshot(doc)
             shapeID == generateObjectID(ShapePrefix, now)
             slideID == IF slideIndex >= 0 /\ slideIndex < Len(presentation.Slides)
                        THEN presentation.Slides[slideIndex + 1].ObjectId
                        ELSE ""
             requests == <<[kind |-> "CreateShape", ObjectId |-> shapeID,
                            ShapeType |-> shapeType, PageObjectId |-> slideID]>>
         IN  IF slideIndex >= Len(presentation.Slides)
             THEN Failed("slide index out of range",
                         <<GetCall(doc), BatchCall(requests, FALSE)>>)
             ELSE IF slideIndex < 0 THEN Panicked(<<GetCall(doc)>>)
             ELSE Submit(<<GetCall(doc)>>, requests, batchOk, "error adding shape", shapeID)

\* shape.Service.Add
ShapeAdd(doc, getOk, batchOk, slideIndex, shapeType, now) ==
    IF ~getOk THEN Failed("error getting presentation", <<GetFailed>>)
    ELSE LET presentation == Snapshot(doc)
         IN  IF slideIndex >= Len(presentation.Slides)
             THEN Failed("slide index out of range", <<GetCall(doc)>>)
             ELSE IF slideIndex < 0 THEN Panicked(<<GetCall(doc)>>)
             ELSE LET slideID == presentation.Slides[slideIndex + 1].ObjectId
                      shapeID == generateObjectID(ShapePrefix, now)
                      requests == <<[kind |-> "CreateShape", ObjectId |-> shapeID,
                                     ShapeType |-> shapeType,
                                     PageObjectId |-> slideID]>>
                  IN  Submit(<<GetCall(doc)>>, requests, batchOk, "error adding shape", shapeID)

\* text.Service.Replace
TextReplace(batchOk, findText, replaceText) ==
    Submit(<<>>,
           <<[kind |-> "ReplaceAllText", ContainsText |-> findText,
              MatchCase |-> FALSE, ReplaceText |-> replaceText]>>,
           batchOk, "error replacing text", Nil)

RECURSIVE FirstShapeID(_)
\* notes.Service.Add's loop: the ObjectId of the first element that is a
\* shape, "" when there is none.
FirstShapeID(els) ==
    IF els = <<>> THEN ""
    ELSE IF Head(els).Shape # Nil THEN Head(els).ObjectId
    ELSE FirstShapeID(Tail(els))

\* notes.Add with the text of the notes shape deleted before the new text
\* goes in.
NotesAddReplacing(doc, getOk, batchOk, slideIndex, notesContent) ==
    IF ~getOk THEN Failed("error getting presentation", <<GetFailed>>)
    ELSE LET presentation == Snapshot(doc)
         IN  IF slideIndex >= Len(presentation.Slides)
             THEN Failed("slide index out of range", <<GetCall(doc)>>)
             ELSE IF slideIndex < 0 THEN Panicked(<<GetCall(doc)>>)
             ELSE LET notesPage ==
                          presentation.Slides[slideIndex + 1].SlideProperties.NotesPage
                  IN  IF notesPage = Nil \/ Len(notesPage.PageElements) = 0
                      THEN Failed("notes page not available", <<GetCall(doc)>>)
                      ELSE LET notesShapeID == FirstShapeID(notesPage.PageElements)
                           IN  IF notesShapeID = ""
                               THEN Failed("notes shape not found", <<GetCall(doc)>>)
                               ELSE Submit(<<GetCall(doc)>>,
                                           <<[kind |-> "DeleteText",
                                              ObjectId |-> notesShapeID],
                                             [kind |-> "InsertText",
                                              ObjectId |-> notesShapeID,
                                              Text |-> notesContent,
                                              InsertionIndex |-> 0]>>,
                                           batchOk, "error adding notes", Nil)

\* notes.Service.Add
NotesAdd(doc, getOk, batchOk, slideIndex, notesContent) ==
    IF ~getOk THEN Failed("error getting presentation", <<GetFailed>>)
    ELSE LET presentation == Snapshot(doc)
         IN  IF slideIndex >= Len(presentation.Slides)
             THEN Failed("slide index out of range", <<GetCall(doc)>>)
             ELSE IF slideIndex < 0 THEN Panicked(<<GetCall(doc)>>)
             ELSE LET notesPage ==
                          presentation.Slides[slideIndex + 1].SlideProperties.NotesPage
                  IN  IF notesPage = Nil \/ Len(notesPage.PageElements) = 0
                      THEN Failed("notes page not available", <<GetCall(doc)>>)
                      ELSE LET notesShapeID == FirstShapeID(notesPage.PageElements)
                           IN  IF notesShapeID = ""
                               THEN Failed("notes shape not found", <<GetCall(doc)>>)
                               ELSE Submit(<<GetCall(doc)>>,
                                           <<[kind |-> "InsertText",
                                              ObjectId |-> notesShapeID,
                                              Text |-> notesContent,
                                              InsertionIndex |-> 0]>>,
                                           batchOk, "error adding notes", Nil)

HexDigits == <<"0", "1", "2", "3", "4", "5", "6", "7", "8", "9",
               "a", "b", "c", "d", "e", "f", "A", "B", "C", "D", "E", "F">>

IsHex(c) == \E i \in 1..Len(HexDigits) : HexDigits[i] = c

HexVal(c) ==
    LET i == CHOOSE k \in 1..Len(HexDigits) : HexDigits[k] = c
    IN  IF i <= 16 THEN i - 1 ELSE i - 7

\* One %02x verb of Sscanf on the input left: up to two hexadecimal digits;
\* no digit at all is a scan error.
ScanHexPair(s) ==
    IF s = <<>> \/ ~IsHex(Head(s)) THEN [err |-> TRUE, val |-> 0, rest |-> s]
    ELSE IF Len(s) >= 2 /\ IsHex(s[2])
         THEN [err |-> FALSE, val |-> (HexVal(s[1]) * 16) + HexVal(s[2]),
               rest |-> SubSeq(s, 3, Len(s))]
         ELSE [err |-> FALSE, val |-> HexVal(s[1]), rest |-> Tail(s)]

\* strings.TrimPrefix
TrimPrefix(s, prefix) ==
    IF Len(s) >= Len(prefix) /\ SubSeq(s, 1, Len(prefix)) = prefix
    THEN SubSeq(s, Len(prefix) + 1, Len(s))
    ELSE s

\* table.parseColor: nil unless six characters follow the optional '#'; the
\* result of Sscanf is not looked at, so a component that does not scan, and
\* every one after it, stays 0.  Components are in 255ths.
parseColor(hexColor) ==
    LET h == TrimPrefix(hexColor, <<"#">>)
    IN  IF Len(h) # 6 THEN Nil
        ELSE LET r == ScanHexPair(h)
                 g == IF r.err THEN r ELSE ScanHexPair(r.rest)
                 b == IF g.err THEN g ELSE ScanHexPair(g.rest)
             IN  [RgbColor |-> [Red |-> r.val,
                                Green |-> IF r.err THEN 0 ELSE g.val,
                                Blue |-> IF g.err THEN 0 ELSE b.val]]

\* table.Service.StyleCell
TableStyleCell(batchOk, tableID, row, col, bgColor) ==
    Submit(<<>>,
           <<[kind |-> "UpdateTableCellProperties", ObjectId |-> tableID,
              Color |-> parseColor(bgColor),
              Location |-> [RowIndex |-> row, ColumnIndex |-> col],
              RowSpan |-> 1, ColumnSpan |-> 1,
              Fields |-> "tableCellBackgroundFill.solidFill.color"]>>,
           batchOk, "error styling cell", Nil)

\* --------------------------------------- packages presentation, style, export

\* Create handing back the presentation it created although the move to the
\* folder failed.
PresentationCreateKeeping(createOk, moveOk, title, folderID) ==
    IF ~createOk
    THEN Failed("error creating presentation",
                <<[op |-> "Presentations.Create", Title |-> title, ok |-> FALSE]>>)
    ELSE LET result == [Title |-> title, PresentationId |-> "new_presentation"]
             created == [op |-> "Presentations.Create", Title |-> title, ok |-> TRUE]
         IN  IF folderID # ""
             THEN Returned(result, <<created, [op |-> "Files.Update",
                                               fileId |-> result.PresentationId,
                                               AddParents |-> folderID, ok |-> moveOk]>>)
             ELSE Returned(result, <<created>>)

\* presentation.Service.Create: the document is created, then moved when a
\* folder is given.
PresentationCreate(createOk, moveOk, title, folderID) ==
    IF ~createOk
    THEN Failed("error creating presentation",
                <<[op |-> "Presentations.Create", Title |-> title, ok |-> FALSE]>>)
    ELSE LET result == [Title |-> title, PresentationId |-> "new_presentation"]
             created == [op |-> "Presentations.Create", Title |-> title, ok |-> TRUE]
         IN  IF folderID # ""
             THEN LET moved == [op |-> "Files.Update",
                                fileId |-> result.PresentationId,
                                AddParents |-> folderID, ok |-> moveOk]
                  IN  IF ~moveOk THEN Failed("error moving to folder", <<created, moved>>)
                      ELSE Returned(result, <<created, moved>>)
             ELSE Returned(result, <<created>>)

\* Get asking a second time when the first fetch failed.
PresentationGetRetrying(doc, getOk) ==
    IF ~getOk THEN Failed("error getting presentation", <<GetFailed, GetFailed>>)
    ELSE Returned(Snapshot(doc), <<GetCall(doc)>>)

\* presentation.Service.Get
PresentationGet(doc, getOk) ==
    IF ~getOk THEN Failed("error getting presentation", <<GetFailed>>)
    ELSE Returned(Snapshot(doc), <<GetCall(doc)>>)

\* style.Service.CopyTextStyle, CopyTheme and TranslateSlides: return nil.
StyleNoOp == Returned(Nil, <<>>)

\* style.Service.CopyTextStyle
CopyTextStyle(presentationID, sourceObjectID, targetObjectID) == StyleNoOp

\* style.Service.CopyTheme
CopyTheme(sourcePresentationID, targetPresentationID) == StyleNoOp

\* TranslateSlides as a replacement of every text by its translation,
\* submitted in one batch.
TranslateSlidesSubmitting(presentationID, targetLanguage) ==
    Returned(Nil, <<BatchCall(<<[kind |-> "ReplaceAllText", Text |-> targetLanguage,
                                 ReplaceText |-> targetLanguage]>>, TRUE)>>)

\* style.Service.TranslateSlides
TranslateSlides(presentationID, targetLanguage) == StyleNoOp

\* The export with the output file created before the export is requested.
ExportToCreatingFirst(files, mimeType, exportOk, createOk, body, copied, outputFile, exportErr, writeErr) ==
    LET call == [op |-> "Files.Export", mimeType |-> mimeType, ok |-> exportOk]
        created == [f \in (DOMAIN files) \cup {outputFile} |->
                       IF f = outputFile THEN <<>> ELSE files[f]]
    IN  IF ~createOk
        THEN [ret |-> Failed("error creating output file", <<>>), files |-> files]
        ELSE IF ~exportOk
        THEN [ret |-> Failed(exportErr, <<call>>), files |-> created]
        ELSE LET written == SubSeq(body, 1, copied)
                 after == [f \in DOMAIN created |->
                              IF f = outputFile THEN written ELSE created[f]]
             IN  IF copied < Len(body)
                 THEN [ret |-> Failed(writeErr, <<call>>), files |-> after]
                 ELSE [ret |-> Returned(Nil, <<call>>), files |-> after]

\* The export with the output file opened for appending instead of created
\* anew.
ExportToAppending(files, mimeType, exportOk, createOk, body, copied, outputFile, exportErr, writeErr) ==
    LET call == [op |-> "Files.Export", mimeType |-> mimeType, ok |-> exportOk]
    IN  IF ~exportOk
        THEN [ret |-> Failed(exportErr, <<call>>), files |-> files]
        ELSE IF ~createOk
        THEN [ret |-> Failed("error creating output file", <<call>>), files |-> files]
        ELSE LET written == SubSeq(body, 1, copied)
                 after == [f \in (DOMAIN files) \cup {outputFile} |->
                              IF f # outputFile THEN files[f]
                              ELSE IF f \in DOMAIN files THEN files[f] \o written
                              ELSE written]
             IN  IF copied < Len(body)
                 THEN [ret |-> Failed(writeErr, <<call>>), files |-> after]
                 ELSE [ret |-> Returned(Nil, <<call>>), files |-> after]

\* What export.Service.ToPDF and ToPPTX share: the export request, then
\* os.Create of the output file (which truncates it), then the copy of the
\* response body into it.  `body` is what the remote service streams, `copied`
\* how much of it arrives before a write error (all of it when none occurs).
ExportTo(files, mimeType, exportOk, createOk, body, copied, outputFile, exportErr, writeErr) ==
    LET call == [op |-> "Files.Export", mimeType |-> mimeType, ok |-> exportOk]
    IN  IF ~exportOk
        THEN [ret |-> Failed(exportErr, <<call>>), files |-> files]
        ELSE IF ~createOk
        THEN [ret |-> Failed("error creating output file", <<call>>), files |-> files]
        ELSE LET written == SubSeq(body, 1, copied)
                 after == [f \in (DOMAIN files) \cup {outputFile} |->
                              IF f = outputFile THEN written ELSE files[f]]
             IN  IF copied < Len(body)
                 THEN [ret |-> Failed(writeErr, <<call>>), files |-> after]
                 ELSE [ret |-> Returned(Nil, <<call>>), files |-> after]

\* export.Service.ToPDF
ExportToPDF(files, exportOk, createOk, body, copied, outputFile) ==
    ExportTo(files, "application/pdf", exportOk, createOk, body, copied, outputFile,
             "error exporting as PDF", "error writing PDF")

\* export.Service.ToPPTX
ExportToPPTX(files, exportOk, createOk, body, copied, outputFile) ==
    ExportTo(files,
             "application/vnd.openxmlformats-officedocument.presentationml.presentation",
             exportOk, createOk, body, copied, outputFile,
             "error exporting as PPTX", "error writing PPTX")

\* ------------------------------------------------------------ package auth

\* The credentials directory and the token file in it.  The directory is
\* there (credentials.json is read from it) with the mode its owner gave it;
\* the token file is missing, or holds a token, or holds something that does
\* not decode.
TokenFile(content, mode) == [exists |-> TRUE, content |-> content, mode |-> mode]

NoFile == [exists |-> FALSE, content |-> "", mode |-> ""]

\* auth.tokenFromFile: os.Open, then the JSON decoder.
tokenFromFile(fs) ==
    IF ~fs.file.exists THEN [err |-> "open token file"]
    ELSE IF fs.file.content # "token" THEN [err |-> "unable to decode token"]
    ELSE [err |-> ""]

\* os.MkdirAll(dir, 0700): a directory that is there is left as it is.
MkdirAll(dir, perm) == IF dir = "" THEN perm ELSE dir

\* The token file opened, and created when missing, but nothing written to it.
OpenFileOnly(file, perm) == IF file.exists THEN file ELSE TokenFile("", perm)

\* os.OpenFile(path, O_RDWR|O_CREATE|O_TRUNC, 0600), then the encoder: a new
\* file gets the mode, a file that is there is emptied and keeps its mode.
OpenFileAndEncode(file, perm) ==
    IF file.exists THEN TokenFile("token", file.mode) ELSE TokenFile("token", perm)

\* auth.saveToken; `writable` tells whether the token file can be opened for
\* writing.
saveToken(fs, writable) ==
    LET dir == MkdirAll(fs.dir, "0700")
    IN  IF ~writable THEN [err |-> "unable to create token file",
                           fs |-> [dir |-> dir, file |-> fs.file]]
        ELSE [err |-> "", fs |-> [dir |-> dir, file |-> OpenFileAndEncode(fs.file, "0600")]]

\* auth.GetClient with the credentials directory in state `token`.
\* env.creds tells whether credentials.json can be read and parsed, env.web
\* whether the authorization handshake yields a token, env.save whether the
\* token file can be written.  The handshake prompts on the primary output;
\* saveToken announces itself on the diagnostic output.
GetClient(token, env) ==
    LET quiet(e) == [err |-> e, stdout |-> <<>>, stderr |-> <<>>,
                     token |-> token, handshake |-> FALSE]
        prompt == <<[kind |-> "prompt", text |-> "Go to the following link in your browser"],
                    [kind |-> "prompt", text |-> "Enter authorization code"]>>
        saving == <<[kind |-> "info", text |-> "Saving credentials to"]>>
        saved == saveToken(token, env.save)
    IN  CASE env.creds = "unreadable" -> quiet("unable to read credentials file")
          [] env.creds = "invalid" -> quiet("unable to parse credentials")
          [] tokenFromFile(token).err = "" -> quiet("")
          [] ~env.web ->
                [err |-> "unable to retrieve token from web", stdout |-> prompt,
                 stderr |-> <<>>, token |-> token, handshake |-> TRUE]
          [] saved.err # "" ->
                [err |-> "unable to save token", stdout |-> prompt,
                 stderr |-> saving, token |-> saved.fs, handshake |-> TRUE]
          [] OTHER ->
                [err |-> "", stdout |-> prompt, stderr |-> saving,
                 token |-> saved.fs, handshake |-> TRUE]

\* auth.GetSlidesService
GetSlidesService(token, env) == GetClient(token, env)

\* auth.GetDriveService
GetDriveService(token, env) == GetClient(token, env)

\* The environments GetClient can meet, one for each way through it.
AuthEnvs ==
    {[creds |-> "unreadable", web |-> FALSE, save |-> FALSE],
     [creds |-> "invalid", web |-> FALSE, save |-> FALSE],
     [creds |-> "ok", web |-> FALSE, save |-> FALSE],
     [creds |-> "ok", web |-> TRUE, save |-> FALSE],
     [creds |-> "ok", web |-> TRUE, save |-> TRUE]}

\* ------------------------------------------------------------------ state

VARIABLES
    remote,     \* the presentation at the remote service: its slides' identifiers,
                \* in order
    tokenFile,  \* the credentials directory: its mode and the token file in it
    disk,       \* the local files export can write: path |-> content
    pc,         \* "ready" before the command runs, "done" after; "ids" in SpecIds
    cmd,        \* the command that ran
    args,       \* its arguments, with what each was meant to say
    calls,      \* the remote calls the service method made, in order
    svc,        \* what the service method handed back to the command
    exit,       \* how the command ended: "ok", "error" (RunE returned it), "panic"
    stdout,     \* what the process wrote on the primary output
    stderr,     \* what the process wrote on the diagnostic output
    clock,      \* the clock reading (SpecIds)
    generated,  \* the identifiers generateObjectID returned in this process (SpecIds)
    served      \* the batches the remote service has applied, in order

vars == <<remote, tokenFile, disk, pc, cmd, args, calls, svc, exit, stdout, stderr,
          clock, generated, served>>

\* A credentials directory with a token saved earlier, and one without.
CachedToken == [dir |-> "0700", file |-> TokenFile("token", "0600")]

NoToken == [dir |-> "0700", file |-> NoFile]

OldFile == <<"o", "l", "d">>

\* The bytes the remote service streams for an export.
ExportBody == <<"%", "P", "D", "F">>

Init ==
    /\ remote \in Documents
    /\ tokenFile \in {CachedToken, NoToken}
    /\ disk = [f \in {"old.out"} |-> OldFile]
    /\ pc = "ready"
    /\ cmd = ""
    /\ args = <<>>
    /\ calls = <<>>
    /\ svc = [status |-> "none", err |-> "", value |-> Nil]
    /\ exit = [status |-> "none", err |-> ""]
    /\ stdout = <<>>
    /\ stderr = <<>>
    /\ clock = 0
    /\ generated = <<>>
    /\ served = <<>>

\* ----------------------------------------------------------------- inputs

\* A command-line word that is meant as the integer n.
IntArg(n) == [text |-> FormatInt(n), ok |-> TRUE, n |-> n]

\* A command-line word that is no integer.
BadArg == [text |-> <<"x">>, ok |-> FALSE, n |-> 0]

\* The slide-index words: below, inside and above every presentation's range.
IndexArgs == {IntArg(n) : n \in -1..MaxSlides} \cup {BadArg}

\* The tokens of a reorder list: integers, one of them with blanks around
\* it, and a token that is no integer.
ReorderTokens ==
    {IntArg(-1), IntArg(0), IntArg(1), IntArg(2),
     [text |-> <<" ", "1", " ">>, ok |-> TRUE, n |-> 1],
     BadArg}

ReorderLists == UNION {[1..k -> ReorderTokens] : k \in 0..MaxList}

RECURSIVE Join(_)
\* The list as the caller types it: the tokens, comma-separated.
Join(tokens) ==
    IF tokens = <<>> THEN <<>>
    ELSE IF Len(tokens) = 1 THEN Head(tokens).text
    ELSE Head(tokens).text \o <<",">> \o Join(Tail(tokens))

\* What the style commands are given: the presentation at hand or one that
\* does not exist, an element of it or none, a language code or none.
PresentationIds == {"deck", "missing"}

ObjectIds == {"p_title", ""}

Languages == {"fr", ""}

Queries ==
    {<<"w", "o", "r">>, <<"W", "O", "R">>, <<"l", "o", " ", "w", "o">>,
     <<"h", "e", "l", "l", "o">>, <<"z">>, <<>>}

ColorArgs ==
    {<<"#", "F", "F", "0", "0", "0", "0">>, <<"0", "0", "f", "f", "7", "f">>,
     <<"#", "1", "2">>, <<"G", "G", "0", "0", "0", "0">>,
     <<"1", "2", "G", "4", "5", "6">>, <<>>}

\* ------------------------------------------------------------ package cli

\* strconv.ParseInt(s, 10, 64)
ParseInt(s) == Atoi(s)

\* ------------------------------------------- the remote service at work

\* What Presentations.BatchUpdate does to the document at the remote service
\* when it accepts a batch: the requests are applied in order, all or none.
\* The arrangement of the slides is the part of the document that is kept as
\* state; the texts follow from the batches served (see RemoteText).

Without(doc, id) == SelectSeq(doc, LAMBDA x : x # id)

Holds(doc, id) == \E i \in 1..Len(doc) : doc[i] = id

PositionOf(doc, id) == CHOOSE i \in 1..Len(doc) : doc[i] = id

\* `id` put in so that `index` slides come before it.
InsertedAt(doc, index, id) ==
    LET at == IF index > Len(doc) THEN Len(doc) ELSE index
    IN  SubSeq(doc, 1, at) \o <<id>> \o SubSeq(doc, at + 1, Len(doc))

\* UpdateSlidesPosition for one slide: the insertion index counts the slides
\* of the arrangement before the move.
Repositioned(doc, id, insertionIndex) ==
    IF ~Holds(doc, id) THEN doc
    ELSE LET before == PositionOf(doc, id) - 1
         IN  InsertedAt(Without(doc, id),
                        IF insertionIndex > before THEN insertionIndex - 1
                        ELSE insertionIndex,
                        id)

\* The identifier the remote service gives to the copy of a slide.
CopyOf(id) == "copy"

\* One request applied to the arrangement.  A CreateSlide request whose
\* InsertionIndex holds the zero value goes over the wire without one, and
\* the slide is created at the end; requests on tables, shapes and texts
\* leave the arrangement alone.
RequestApplied(doc, request) ==
    CASE request.kind = "CreateSlide" ->
            IF request.InsertionIndex = 0 THEN Append(doc, request.ObjectId)
            ELSE InsertedAt(doc, request.InsertionIndex, request.ObjectId)
      [] request.kind = "DuplicateObject" ->
            IF Holds(doc, request.ObjectId)
            THEN InsertedAt(doc, PositionOf(doc, request.ObjectId), CopyOf(request.ObjectId))
            ELSE doc
      [] request.kind = "DeleteObject" -> Without(doc, request.ObjectId)
      [] request.kind = "UpdateSlidesPosition" ->
            Repositioned(doc, request.SlideObjectIds[1], request.InsertionIndex)
      [] OTHER -> doc

RECURSIVE BatchApplied(_, _)
BatchApplied(doc, requests) ==
    IF requests = <<>> THEN doc
    ELSE BatchApplied(RequestApplied(doc, Head(requests)), Tail(requests))

\* The slide a request needs to find in the document, if any.
NeedsSlide(request) ==
    CASE request.kind \in {"DuplicateObject", "DeleteObject"} -> <<request.ObjectId>>
      [] request.kind = "UpdateSlidesPosition" -> request.SlideObjectIds
      [] OTHER -> <<>>

\* A remote service that accepts a batch whatever it names.
RemoteAcceptsAnything(doc, requests) == TRUE

RECURSIVE RemoteAccepts(_, _)
\* The remote service refuses a batch with a request that names a slide the
\* document does not hold, or an insertion index beyond its end.
RemoteAccepts(doc, requests) ==
    IF requests = <<>> THEN TRUE
    ELSE LET request == Head(requests)
         IN  /\ \A i \in 1..Len(NeedsSlide(request)) : Holds(doc, NeedsSlide(request)[i])
             /\ request.kind = "UpdateSlidesPosition" => request.InsertionIndex <= Len(doc)
             /\ RemoteAccepts(RequestApplied(doc, request), Tail(requests))

RECURSIVE AcceptedBatches(_)
\* The batches among the calls of a method that the remote service applied.
AcceptedBatches(made) ==
    IF made = <<>> THEN <<>>
    ELSE (IF Head(made).op = "Presentations.BatchUpdate" /\ Head(made).accepted
          THEN <<Head(made).Requests>> ELSE <<>>)
         \o AcceptedBatches(Tail(made))

RECURSIVE RemoteAfter(_, _)
\* The arrangement after the remote service has served the batches.
RemoteAfter(doc, batches) ==
    IF batches = <<>> THEN doc
    ELSE RemoteAfter(BatchApplied(doc, Head(batches)), Tail(batches))

\* The text an InsertText request is aimed at: a shape's, or a table cell's.
TargetOf(request) ==
    [ObjectId |-> request.ObjectId,
     CellLocation |-> IF "CellLocation" \in DOMAIN request THEN request.CellLocation
                      ELSE Nil]

\* InsertText as the remote service applies it: the text goes in so that
\* `index` characters of the old text come before it.
TextInserted(old, index, text) ==
    SubSeq(old, 1, index) \o text \o SubSeq(old, index + 1, Len(old))

\* One request applied to the text of `target`; DeleteText (of ALL) empties it.
TextApplied(old, target, request) ==
    IF request.kind \notin {"InsertText", "DeleteText"} THEN old
    ELSE IF TargetOf(request) # target THEN old
    ELSE IF request.kind = "DeleteText" THEN <<>>
    ELSE TextInserted(old, request.InsertionIndex, request.Text)

RECURSIVE TextAfter(_, _, _)
TextAfter(old, target, requests) ==
    IF requests = <<>> THEN old
    ELSE TextAfter(TextApplied(old, target, Head(requests)), target, Tail(requests))

RECURSIVE ElementNamed(_, _)
\* The element with the identifier among `els`, Nil when there is none.
ElementNamed(els, id) ==
    IF els = <<>> THEN Nil
    ELSE IF Head(els).ObjectId = id THEN Head(els)
    ELSE ElementNamed(Tail(els), id)

\* The notes elements of every slide of the catalogue.
NotesElements ==
    Flatten([i \in 1..Len(Arrangement) |->
                LET notes == Page(Arrangement[i]).SlideProperties.NotesPage
                IN  IF notes = Nil THEN <<>> ELSE notes.PageElements])

\* The text the document holds at `target` to begin with: the runs of a notes
\* shape; nothing in a shape without text body and in the cells of a table
\* that create-table made.
StoredText(target) ==
    LET element == ElementNamed(NotesElements, target.ObjectId)
    IN  IF target.CellLocation # Nil \/ element = Nil THEN <<>>
        ELSE IF element.Shape = Nil \/ element.Shape.Text = Nil THEN <<>>
        ELSE RunsText(element.Shape.Text.TextElements)

\* The text the remote document holds at `target` after the batches served.
RemoteText(target, batches) == TextAfter(StoredText(target), target, Flatten(batches))

\* A run function that writes its confirmation before it looks at the
\* service method's error.
FinishConfirmsFirst(name, a, auth, r, out, confirmation) ==
    /\ pc' = "done"
    /\ cmd' = name
    /\ args' = a
    /\ tokenFile' = auth.token
    /\ calls' = r.calls
    /\ svc' = [status |-> r.status, err |-> r.err, value |-> r.value]
    /\ exit' = IF auth.err # "" THEN [status |-> "error", err |-> auth.err]
               ELSE [status |-> r.status, err |-> r.err]
    /\ stdout' = auth.stdout \o (IF auth.err = "" /\ r.status = "ok" THEN out ELSE <<>>)
    /\ stderr' = auth.stderr
                 \o (IF auth.err = "" /\ r.status \in {"ok", "error"}
                     THEN confirmation ELSE <<>>)
    /\ remote' = RemoteAfter(remote, AcceptedBatches(r.calls))
    /\ served' = served \o AcceptedBatches(r.calls)
    /\ UNCHANGED <<clock, generated>>

\* A run function's end after its service method was called, or after
\* GetSlidesService / GetDriveService failed (`r` is NotCalled then): the
\* error is returned before anything is printed; on success the confirmation
\* goes to the diagnostic output and `out` to the primary output.  Meanwhile
\* the remote service has served `others`, the batches of other clients that
\* reached it before the method's own, and then the method's batch if it
\* accepted it.
FinishAmid(name, a, auth, r, out, confirmation, others) ==
    /\ pc' = "done"
    /\ cmd' = name
    /\ args' = a
    /\ tokenFile' = auth.token
    /\ calls' = r.calls
    /\ svc' = [status |-> r.status, err |-> r.err, value |-> r.value]
    /\ exit' = IF auth.err # "" THEN [status |-> "error", err |-> auth.err]
               ELSE [status |-> r.status, err |-> r.err]
    /\ stdout' = auth.stdout \o (IF auth.err = "" /\ r.status = "ok" THEN out ELSE <<>>)
    /\ stderr' = auth.stderr
                 \o (IF auth.err = "" /\ r.status = "ok" THEN confirmation ELSE <<>>)
    /\ remote' = RemoteAfter(remote, others \o AcceptedBatches(r.calls))
    /\ served' = served \o others \o AcceptedBatches(r.calls)
    /\ UNCHANGED <<clock, generated>>

\* The same with no other client at work.
Finish(name, a, auth, r, out, confirmation) ==
    FinishAmid(name, a, auth, r, out, confirmation, <<>>)

\* A run function's end when an argument does not parse: nothing was called.
Reject(name, a, message) ==
    /\ pc' = "done"
    /\ cmd' = name
    /\ args' = a
    /\ calls' = <<>>
    /\ svc' = [status |-> "none", err |-> "", value |-> Nil]
    /\ exit' = [status |-> "error", err |-> message]
    /\ stdout' = <<>>
    /\ stderr' = <<>>
    /\ UNCHANGED <<remote, tokenFile, disk, clock, generated, served>>

Confirm(text) == <<[kind |-> "confirmation", text |-> text]>>

PrintID(id) == <<[kind |-> "id", value |-> id]>>

PrintText(text) == <<[kind |-> "text", value |-> text]>>

\* cli.printJSON
printJSON(v) == <<[kind |-> "json", value |-> v]>>

\* Both services built from the credentials directory as the command found
\* it: the second GetClient does not see what the first one saved.
BothServicesApart(token, env1, env2) ==
    LET first == GetSlidesService(token, env1)
        second == GetDriveService(token, env2)
    IN  IF first.err # "" THEN first
        ELSE [err |-> second.err, stdout |-> first.stdout \o second.stdout,
              stderr |-> first.stderr \o second.stderr, token |-> second.token,
              handshake |-> first.handshake \/ second.handshake]

\* Both services of create-presentation: GetSlidesService, then
\* GetDriveService unless the first failed.
BothServices(token, env1, env2) ==
    LET first == GetSlidesService(token, env1)
        second == GetDriveService(first.token, env2)
    IN  IF first.err # "" THEN first
        ELSE [err |-> second.err, stdout |-> first.stdout \o second.stdout,
              stderr |-> first.stderr \o second.stderr, token |-> second.token,
              handshake |-> first.handshake \/ second.handshake]

\* cli.runCreatePresentation
runCreatePresentation ==
    /\ pc = "ready"
    /\ \E folder \in {"", "folder"}, env1, env2 \in AuthEnvs, createOk, moveOk \in BOOLEAN :
          LET auth == BothServices(tokenFile, env1, env2)
              r == IF auth.err = ""
                   THEN PresentationCreate(createOk, moveOk, "Deck", folder)
                   ELSE NotCalled
          IN  Finish("create-presentation", [title |-> "Deck", folder |-> folder], auth, r,
                     PrintID(r.value.PresentationId),
                     Confirm("Presentation created") \o Confirm("ID"))
              /\ UNCHANGED disk

\* cli.runAddSlide
runAddSlide ==
    /\ pc = "ready"
    /\ \E layout \in {"BLANK", "TITLE"}, position \in -1..1, env \in AuthEnvs,
          batchOk \in BOOLEAN, now \in 0..MaxClock :
          LET auth == GetSlidesService(tokenFile, env)
              r == IF auth.err = "" THEN SlideAdd(batchOk, layout, position, now)
                   ELSE NotCalled
          IN  Finish("add-slide", [layout |-> layout, position |-> position], auth, r,
                     PrintID(r.value), Confirm("Slide added with layout"))
              /\ UNCHANGED disk

\* BatchUpdate's answer when the batch arrives at a document that other
\* clients have changed since the fetch: `tried` is what the service method
\* does when its batch is accepted, `later` the document the batch arrives at.
BatchAnswer(tried, later, batchOk) ==
    LET batches == AcceptedBatches(tried.calls)
    IN  batchOk /\ (Len(batches) = 0 \/ RemoteAccepts(later, batches[1]))

\* cli.runDuplicateSlide, with the batches `others` of other clients served
\* between the method's fetch and its submission.
runDuplicateSlideAmid(others) ==
    /\ pc = "ready"
    /\ \E a \in IndexArgs, env \in AuthEnvs, getOk, batchOk \in BOOLEAN :
          LET slideIndex == Atoi(a.text)
              given == [slideIndex |-> a]
              auth == GetSlidesService(tokenFile, env)
              r == IF auth.err = ""
                   THEN SlideDuplicate(remote, getOk,
                                       BatchAnswer(SlideDuplicate(remote, getOk, TRUE,
                                                                  slideIndex.val),
                                                   RemoteAfter(remote, others), batchOk),
                                       slideIndex.val)
                   ELSE NotCalled
          IN  IF slideIndex.err THEN Reject("duplicate-slide", given, "invalid slide index")
              ELSE FinishAmid("duplicate-slide", given, auth, r, <<>>,
                              Confirm("Slide duplicated"), others)
                   /\ UNCHANGED disk

runDuplicateSlide == runDuplicateSlideAmid(<<>>)

\* cli.runRemoveSlide
runRemoveSlideAmid(others) ==
    /\ pc = "ready"
    /\ \E a \in IndexArgs, env \in AuthEnvs, getOk, batchOk \in BOOLEAN :
          LET slideIndex == Atoi(a.text)
              given == [slideIndex |-> a]
              auth == GetSlidesService(tokenFile, env)
              r == IF auth.err = ""
                   THEN SlideRemove(remote, getOk,
                                    BatchAnswer(SlideRemove(remote, getOk, TRUE,
                                                            slideIndex.val),
                                                RemoteAfter(remote, others), batchOk),
                                    slideIndex.val)
                   ELSE NotCalled
          IN  IF slideIndex.err THEN Reject("remove-slide", given, "invalid slide index")
              ELSE FinishAmid("remove-slide", given, auth, r, <<>>,
                              Confirm("Slide removed"), others)
                   /\ UNCHANGED disk

runRemoveSlide == runRemoveSlideAmid(<<>>)

\* cli.runMoveSlide
runMoveSlideAmid(others) ==
    /\ pc = "ready"
    /\ \E a \in IndexArgs, b \in {IntArg(0), IntArg(2), BadArg}, env \in AuthEnvs,
          getOk, batchOk \in BOOLEAN :
          LET slideIndex == Atoi(a.text)
              newPosition == Atoi(b.text)
              given == [slideIndex |-> a, newPosition |-> b]
              auth == GetSlidesService(tokenFile, env)
              r == IF auth.err = ""
                   THEN SlideMove(remote, getOk,
                                  BatchAnswer(SlideMove(remote, getOk, TRUE, slideIndex.val,
                                                        newPosition.val),
                                              RemoteAfter(remote, others), batchOk),
                                  slideIndex.val, newPosition.val)
                   ELSE NotCalled
          IN  IF slideIndex.err THEN Reject("move-slide", given, "invalid slide index")
              ELSE IF newPosition.err THEN Reject("move-slide", given, "invalid new position")
              ELSE FinishAmid("move-slide", given, auth, r, <<>>,
                              Confirm("Slide moved to position"), others)
                   /\ UNCHANGED disk

runMoveSlide == runMoveSlideAmid(<<>>)

\* cli.runReorderSlides
runReorderSlides ==
    /\ pc = "ready"
    /\ \E list \in ReorderLists, env \in AuthEnvs, getOk, batchOk \in BOOLEAN :
          LET indicesStr == Join(list)
              auth == GetSlidesService(tokenFile, env)
              r == IF auth.err = "" THEN SlideReorder(remote, getOk, batchOk, indicesStr)
                   ELSE NotCalled
              \* the list is read by slide.Reorder only
              given == IF auth.err = "" THEN [indices |-> indicesStr, list |-> list]
                       ELSE [indices |-> <<>>, list |-> <<>>]
          IN  Finish("reorder-slides", given, auth, r, <<>>, Confirm("Slides reordered"))
              /\ UNCHANGED disk

\* cli.runCreateTable
runCreateTable ==
    /\ pc = "ready"
    /\ \E a \in IndexArgs, b \in {IntArg(3), BadArg}, c \in {IntArg(2), BadArg},
          env \in AuthEnvs, getOk, batchOk \in BOOLEAN, now \in 0..MaxClock :
          LET slideIndex == Atoi(a.text)
              rows == ParseInt(b.text)
              cols == ParseInt(c.text)
              given == [slideIndex |-> a, rows |-> b, cols |-> c]
              auth == GetSlidesService(tokenFile, env)
              r == IF auth.err = ""
                   THEN TableCreate(remote, getOk, batchOk, slideIndex.val,
                                    rows.val, cols.val, now)
                   ELSE NotCalled
          IN  IF slideIndex.err THEN Reject("create-table", given, "invalid slide index")
              ELSE IF rows.err THEN Reject("create-table", given, "invalid rows")
              ELSE IF cols.err THEN Reject("create-table", given, "invalid cols")
              ELSE Finish("create-table", given, auth, r, PrintID(r.value),
                          Confirm("Table created"))
                   /\ UNCHANGED disk

\* cli.runUpdateCell, `text` being the text given
runUpdateCellWith(text) ==
    /\ pc = "ready"
    /\ \E b \in {IntArg(0), BadArg}, c \in {IntArg(1), BadArg}, env \in AuthEnvs,
          batchOk \in BOOLEAN :
          LET row == ParseInt(b.text)
              col == ParseInt(c.text)
              given == [tableID |-> "table_a", row |-> b, col |-> c, text |-> text]
              auth == GetSlidesService(tokenFile, env)
              r == IF auth.err = ""
                   THEN TableUpdateCell(batchOk, "table_a", row.val, col.val, text)
                   ELSE NotCalled
          IN  IF row.err THEN Reject("update-cell", given, "invalid row")
              ELSE IF col.err THEN Reject("update-cell", given, "invalid col")
              ELSE Finish("update-cell", given, auth, r, <<>>, Confirm("Cell updated"))
                   /\ UNCHANGED disk

runUpdateCell == runUpdateCellWith(Hello)

\* cli.runStyleCell
runStyleCell ==
    /\ pc = "ready"
    /\ \E b \in {IntArg(0), BadArg}, c \in {IntArg(1), BadArg}, styleCellBgColor \in ColorArgs,
          env \in AuthEnvs, batchOk \in BOOLEAN :
          LET row == ParseInt(b.text)
              col == ParseInt(c.text)
              given == [tableID |-> "table_a", row |-> b, col |-> c,
                        bgColor |-> styleCellBgColor]
              auth == GetSlidesService(tokenFile, env)
              r == IF auth.err = ""
                   THEN TableStyleCell(batchOk, "table_a", row.val, col.val, styleCellBgColor)
                   ELSE NotCalled
          IN  IF row.err THEN Reject("style-cell", given, "invalid row")
              ELSE IF col.err THEN Reject("style-cell", given, "invalid col")
              ELSE IF styleCellBgColor = <<>>
              THEN Reject("style-cell", given, "background color is required (--bg-color)")
              ELSE Finish("style-cell", given, auth, r, <<>>, Confirm("Cell styled"))
                   /\ UNCHANGED disk

\* cli.runReplaceText
runReplaceText ==
    /\ pc = "ready"
    /\ \E env \in AuthEnvs, batchOk \in BOOLEAN :
          LET auth == GetSlidesService(tokenFile, env)
              r == IF auth.err = "" THEN TextReplace(batchOk, Hello, World) ELSE NotCalled
          IN  Finish("replace-text", [find |-> Hello, replace |-> World], auth, r, <<>>,
                     Confirm("Text replaced"))
              /\ UNCHANGED disk

\* cli.runExtractAllText
runExtractAllText ==
    /\ pc = "ready"
    /\ \E env \in AuthEnvs, getOk \in BOOLEAN :
          LET auth == GetSlidesService(tokenFile, env)
              r == IF auth.err = "" THEN TextExtractAll(remote, getOk) ELSE NotCalled
          IN  Finish("extract-all-text", <<>>, auth, r, PrintText(r.value), <<>>)
              /\ UNCHANGED disk

\* cli.runSearchText
runSearchText ==
    /\ pc = "ready"
    /\ \E query \in Queries, env \in AuthEnvs, getOk \in BOOLEAN :
          LET auth == GetSlidesService(tokenFile, env)
              r == IF auth.err = "" THEN TextSearch(remote, getOk, query) ELSE NotCalled
          IN  Finish("search-text", [query |-> query], auth, r, printJSON(r.value), <<>>)
              /\ UNCHANGED disk

\* cli.runGetNotes
runGetNotes ==
    /\ pc = "ready"
    /\ \E a \in IndexArgs, env \in AuthEnvs, getOk \in BOOLEAN :
          LET slideIndex == Atoi(a.text)
              given == [slideIndex |-> a]
              auth == GetSlidesService(tokenFile, env)
              r == IF auth.err = ""
                   THEN NotesGet(remote, getOk, slideIndex.val)
                   ELSE NotCalled
          IN  IF slideIndex.err THEN Reject("get-notes", given, "invalid slide index")
              ELSE Finish("get-notes", given, auth, r, PrintText(r.value), <<>>)
                   /\ UNCHANGED disk

\* cli.runAddNotes, `notesContent` being the notes given
runAddNotesWith(notesContent) ==
    /\ pc = "ready"
    /\ \E a \in IndexArgs, env \in AuthEnvs, getOk, batchOk \in BOOLEAN :
          LET slideIndex == Atoi(a.text)
              given == [slideIndex |-> a, notes |-> notesContent]
              auth == GetSlidesService(tokenFile, env)
              r == IF auth.err = ""
                   THEN NotesAdd(remote, getOk, batchOk, slideIndex.val, notesContent)
                   ELSE NotCalled
          IN  IF slideIndex.err THEN Reject("add-notes", given, "invalid slide index")
              ELSE Finish("add-notes", given, auth, r, <<>>, Confirm("Notes added to slide"))
                   /\ UNCHANGED disk

runAddNotes == runAddNotesWith(World)

\* cli.runExtractAllNotes
runExtractAllNotes ==
    /\ pc = "ready"
    /\ \E env \in AuthEnvs, getOk \in BOOLEAN :
          LET auth == GetSlidesService(tokenFile, env)
              r == IF auth.err = "" THEN NotesExtractAll(remote, getOk) ELSE NotCalled
          IN  Finish("extract-all-notes", <<>>, auth, r, printJSON(r.value), <<>>)
              /\ UNCHANGED disk

\* cli.runAddShape
runAddShape ==
    /\ pc = "ready"
    /\ \E a \in IndexArgs, env \in AuthEnvs, getOk, batchOk \in BOOLEAN, now \in 0..MaxClock :
          LET slideIndex == Atoi(a.text)
              given == [slideIndex |-> a, shapeType |-> "RECTANGLE"]
              auth == GetSlidesService(tokenFile, env)
              r == IF auth.err = ""
                   THEN ShapeAdd(remote, getOk, batchOk, slideIndex.val, "RECTANGLE", now)
                   ELSE NotCalled
          IN  IF slideIndex.err THEN Reject("add-shape", given, "invalid slide index")
              ELSE Finish("add-shape", given, auth, r, PrintID(r.value), Confirm("Shape added"))
                   /\ UNCHANGED disk

\* cli.runCopyTextStyle
runCopyTextStyle ==
    /\ pc = "ready"
    /\ \E presentationID \in PresentationIds, sourceObjectID, targetObjectID \in ObjectIds,
          env \in AuthEnvs :
          LET given == [presentationID |-> presentationID,
                        sourceObjectID |-> sourceObjectID,
                        targetObjectID |-> targetObjectID]
              auth == GetSlidesService(tokenFile, env)
              r == IF auth.err = ""
                   THEN CopyTextStyle(presentationID, sourceObjectID, targetObjectID)
                   ELSE NotCalled
          IN  Finish("copy-text-style", given, auth, r, <<>>, Confirm("Text style copied"))
              /\ UNCHANGED disk

\* cli.runCopyTheme
runCopyTheme ==
    /\ pc = "ready"
    /\ \E sourcePresentationID, targetPresentationID \in PresentationIds, env \in AuthEnvs :
          LET given == [sourcePresentationID |-> sourcePresentationID,
                        targetPresentationID |-> targetPresentationID]
              auth == GetSlidesService(tokenFile, env)
              r == IF auth.err = ""
                   THEN CopyTheme(sourcePresentationID, targetPresentationID)
                   ELSE NotCalled
          IN  Finish("copy-theme", given, auth, r, <<>>, Confirm("Theme copied"))
              /\ UNCHANGED disk

\* cli.runTranslateSlides
runTranslateSlides ==
    /\ pc = "ready"
    /\ \E presentationID \in PresentationIds, targetLanguage \in Languages,
          env \in AuthEnvs :
          LET given == [presentationID |-> presentationID,
                        targetLanguage |-> targetLanguage]
              auth == GetSlidesService(tokenFile, env)
              r == IF auth.err = ""
                   THEN TranslateSlides(presentationID, targetLanguage)
                   ELSE NotCalled
          IN  Finish("translate-slides", given, auth, r, <<>>, Confirm("Slides translated"))
              /\ UNCHANGED disk

\* cli.runExportPdf
runExportPdf ==
    /\ pc = "ready"
    /\ \E outputFile \in {"old.out", "new.out"}, env \in AuthEnvs,
          exportOk, createOk \in BOOLEAN, copied \in 0..Len(ExportBody) :
          LET auth == GetDriveService(tokenFile, env)
              done == IF auth.err = ""
                      THEN ExportToPDF(disk, exportOk, createOk, ExportBody, copied, outputFile)
                      ELSE [ret |-> NotCalled, files |-> disk]
          IN  Finish("export-pdf", [outputFile |-> outputFile], auth, done.ret, <<>>,
                     Confirm("Presentation exported as PDF"))
              /\ disk' = done.files

\* cli.runExportPptx
runExportPptx ==
    /\ pc = "ready"
    /\ \E outputFile \in {"old.out", "new.out"}, env \in AuthEnvs,
          exportOk, createOk \in BOOLEAN, copied \in 0..Len(ExportBody) :
          LET auth == GetDriveService(tokenFile, env)
              done == IF auth.err = ""
                      THEN ExportToPPTX(disk, exportOk, createOk, ExportBody, copied, outputFile)
                      ELSE [ret |-> NotCalled, files |-> disk]
          IN  Finish("export-pptx", [outputFile |-> outputFile], auth, done.ret, <<>>,
                     Confirm("Presentation exported as PPTX"))
              /\ disk' = done.files

\* ----------------------------------------------------------- specification

Next ==
    \/ runCreatePresentation
    \/ runAddSlide
    \/ runDuplicateSlide
    \/ runRemoveSlide
    \/ runMoveSlide
    \/ runReorderSlides
    \/ runCreateTable
    \/ runUpdateCell
    \/ runStyleCell
    \/ runReplaceText
    \/ runExtractAllText
    \/ runSearchText
    \/ runGetNotes
    \/ runAddNotes
    \/ runExtractAllNotes
    \/ runAddShape
    \/ runCopyTextStyle
    \/ runCopyTheme
    \/ runTranslateSlides
    \/ runExportPdf
    \/ runExportPptx

\* One command-line invocation against any document of the model.
Spec == Init /\ [][Next]_vars

\* ------------------------------------------------ identifiers of one process

InitIds ==
    /\ remote = <<>>
    /\ tokenFile = CachedToken
    /\ disk = [f \in {"old.out"} |-> OldFile]
    /\ pc = "ids"
    /\ cmd = ""
    /\ args = <<>>
    /\ calls = <<>>
    /\ svc = [status |-> "none", err |-> "", value |-> Nil]
    /\ exit = [status |-> "none", err |-> ""]
    /\ stdout = <<>>
    /\ stderr = <<>>
    /\ clock = 0
    /\ generated = <<>>
    /\ served = <<>>

\* Time passes between two calls, or does not: the clock reading goes up.
Tick ==
    /\ pc = "ids"
    /\ clock < MaxClock
    /\ clock' = clock + 1
    /\ UNCHANGED <<remote, tokenFile, disk, pc, cmd, args, calls, svc, exit, stdout,
                   stderr, generated, served>>

\* One call of generateObjectID, reading the clock as it stands.
NewObjectID ==
    /\ pc = "ids"
    /\ Len(generated) < MaxCalls
    /\ \E prefix \in {SlidePrefix, TablePrefix, ShapePrefix} :
          generated' = Append(generated,
                              [prefix |-> prefix, at |-> clock,
                               id |-> generateObjectID(prefix, clock)])
    /\ UNCHANGED <<remote, tokenFile, disk, pc, cmd, args, calls, svc, exit, stdout,
                   stderr, clock, served>>

NextIds == Tick \/ NewObjectID

\* The calls of generateObjectID one process makes, as time passes.
SpecIds == InitIds /\ [][NextIds]_vars

\* ------------------------------------------------- what the claims speak of

\* The command has ended.
Done == pc = "done"

\* The service method fetched a snapshot; FetchedSlides are the slide
\* identifiers of that snapshot, in order.
Fetched == Len(calls) >= 1 /\ calls[1].op = "Presentations.Get" /\ calls[1].ok

FetchedSlides == calls[1].snapshot

\* The batches the service method submitted, in order.
Batches == SelectSeq(calls, LAMBDA c : c.op = "Presentations.BatchUpdate")

\* The commands whose service method takes a slide index.
IndexCommands ==
    {"duplicate-slide", "remove-slide", "move-slide", "create-table", "add-shape",
     "get-notes", "add-notes"}

\* Those of them whose primitive names a slide.
SlideTargetCommands ==
    {"duplicate-slide", "remove-slide", "move-slide", "create-table", "add-shape"}

\* An index command's service method ran on a fetched snapshot.
IndexUsed ==
    /\ Done
    /\ cmd \in IndexCommands
    /\ args.slideIndex.ok
    /\ Fetched

\* The index the caller meant.
GivenIndex == args.slideIndex.n

IndexInRange == GivenIndex >= 0 /\ GivenIndex < Len(FetchedSlides)

\* The identifier of the slide at the given position of the fetched snapshot.
SlideAtIndex == FetchedSlides[GivenIndex + 1]

\* The object a primitive is aimed at.
CarriedId(request) ==
    CASE request.kind \in {"DuplicateObject", "DeleteObject", "InsertText"} ->
            request.ObjectId
      [] request.kind = "UpdateSlidesPosition" -> request.SlideObjectIds[1]
      [] request.kind \in {"CreateTable", "CreateShape"} -> request.PageObjectId
      [] OTHER -> ""

\* Exactly one batch of exactly one primitive was submitted, aimed at `id`.
SubmittedOneAimedAt(id) ==
    /\ Len(Batches) = 1
    /\ Len(Batches[1].Requests) = 1
    /\ CarriedId(Batches[1].Requests[1]) = id

\* Read off the documents of the model by hand: the speaker notes of each
\* slide as stored, and the first shape of each slide's notes page.
StoredNotes(id) ==
    CASE id = "p" -> RememberThis
      [] id = "r" -> <<"\n">>
      [] id = "s" -> <<"a", " ", " ", "b">>
      [] OTHER -> <<>>

FirstNotesShape(id) ==
    CASE id = "p" -> "p_speaker"
      [] id = "r" -> "r_speaker"
      [] id = "s" -> "s_bare"
      [] OTHER -> ""

\* ------------------------------------------------------------------ C1

\* C1 as the specification states it: with a valid index, every one of the
\* seven index operations resolves the index to the slide at that position
\* and the primitive it submits carries that slide's identifier.
C1_EveryPrimitiveCarriesSlideId ==
    (IndexUsed /\ IndexInRange) =>
        /\ cmd \in SlideTargetCommands => SubmittedOneAimedAt(SlideAtIndex)
        /\ cmd = "get-notes" => svc.value = StoredNotes(SlideAtIndex)
        /\ \A b \in 1..Len(Batches) :
              \A j \in 1..Len(Batches[b].Requests) :
                 CarriedId(Batches[b].Requests[j]) = SlideAtIndex

\* C1: with a valid index (0 <= index < N) the operation resolves the index
\* to the slide at exactly that position of the fetched snapshot.  Duplicate,
\* Remove, Move, table.Create and shape.Add submit one primitive that carries
\* that slide's identifier; notes.Get submits nothing and returns that slide's
\* notes; the primitive notes.Add submits carries the identifier of the first
\* shape of that slide's notes page, and none is submitted when there is no
\* such shape.
C1_IndexResolvesToSlideAtPosition ==
    (IndexUsed /\ IndexInRange) =>
        /\ cmd \in SlideTargetCommands => SubmittedOneAimedAt(SlideAtIndex)
        /\ cmd = "get-notes" =>
              /\ Batches = <<>>
              /\ svc.status = "ok"
              /\ svc.value = StoredNotes(SlideAtIndex)
        /\ cmd = "add-notes" =>
              IF FirstNotesShape(SlideAtIndex) = "" THEN Batches = <<>>
              ELSE SubmittedOneAimedAt(FirstNotesShape(SlideAtIndex))

\* A slide that is not the first of a presentation of three or more is
\* removed by its index, and the batch is applied.
C1_Witness ==
    /\ IndexUsed
    /\ cmd = "remove-slide"
    /\ GivenIndex = 2
    /\ Len(FetchedSlides) >= 3
    /\ exit.status = "ok"
    /\ Batches[1].accepted
    /\ Batches[1].Requests[1].ObjectId = FetchedSlides[3]

\* ------------------------------------------------------------------ C2

\* The error an index operation returns for an index outside the snapshot.
OutOfRange == "slide index out of range"

\* C2: an index >= N or < 0 makes every index operation fail with the
\* out-of-range error: the command ends with that error, not with a crash,
\* and no batch is submitted.
C2_OutOfRangeIndexIsRejected ==
    (IndexUsed /\ ~IndexInRange) =>
        /\ exit.status = "error"
        /\ exit.err = OutOfRange
        /\ Batches = <<>>

\* ------------------------------------------------------------------ C3

\* slide.Reorder was called with the list the caller typed.
ReorderUsed == Done /\ cmd = "reorder-slides" /\ svc.status # "none"

\* The list has at least one token and every token is an integer.
ListWellFormed ==
    /\ Len(args.list) >= 1
    /\ \A j \in 1..Len(args.list) : args.list[j].ok

\* Every index of the list is a position of the fetched snapshot.
ListInRange ==
    \A j \in 1..Len(args.list) :
       args.list[j].n >= 0 /\ args.list[j].n < Len(FetchedSlides)

\* C3: on an index list i_0, ..., i_(k-1) of valid indices, Reorder submits
\* exactly one batch of k UpdateSlidesPosition primitives in list order, the
\* j-th carrying the identifier of the slide at snapshot position i_j and the
\* target position j.
C3_ReorderSubmitsOneBatchInListOrder ==
    (ReorderUsed /\ ListWellFormed /\ Fetched /\ ListInRange) =>
        /\ Len(calls) = 2
        /\ Len(Batches) = 1
        /\ Batches[1].Requests =
              [j \in 1..Len(args.list) |->
                  [kind |-> "UpdateSlidesPosition",
                   SlideObjectIds |-> <<FetchedSlides[args.list[j].n + 1]>>,
                   InsertionIndex |-> j - 1]]

\* The list "2,0,1" on a presentation of four slides: the batch moves the
\* slide found at 2 to 0, the one found at 0 to 1, the one found at 1 to 2.
C3_Witness ==
    /\ ReorderUsed
    /\ args.indices = <<"2", ",", "0", ",", "1">>
    /\ Fetched
    /\ Len(FetchedSlides) = 4
    /\ exit.status = "ok"
    /\ Batches[1].accepted
    /\ Batches[1].Requests =
          <<[kind |-> "UpdateSlidesPosition", SlideObjectIds |-> <<FetchedSlides[3]>>,
             InsertionIndex |-> 0],
            [kind |-> "UpdateSlidesPosition", SlideObjectIds |-> <<FetchedSlides[1]>>,
             InsertionIndex |-> 1],
            [kind |-> "UpdateSlidesPosition", SlideObjectIds |-> <<FetchedSlides[2]>>,
             InsertionIndex |-> 2]>>

\* ------------------------------------------------------------------ C4

\* The errors Reorder returns for a token that is no integer and for an
\* index outside the snapshot.
MalformedInput == "invalid index"

ReorderOutOfRange == "slide index %d out of range"

\* C4: Reorder fails with the out-of-range error when an index of the list is
\* >= N or < 0, and with the malformed-input error when a token of the list
\* (the empty string included) is no integer; in both cases no batch is
\* submitted.
C4_ReorderRejectsBadLists ==
    ReorderUsed =>
        /\ ~ListWellFormed =>
              /\ exit.status = "error"
              /\ exit.err = MalformedInput
              /\ Batches = <<>>
        /\ (ListWellFormed /\ Fetched /\ ~ListInRange) =>
              /\ exit.status = "error"
              /\ exit.err = ReorderOutOfRange
              /\ Batches = <<>>

\* ------------------------------------------------------------------ C5

\* C5: any two calls of generateObjectID with the same prefix within one
\* process return different identifiers, whatever the clock read at the two
\* calls, the same reading included.
C5_SamePrefixIdentifiersDiffer ==
    \A i, j \in 1..Len(generated) :
       (i # j /\ generated[i].prefix = generated[j].prefix) =>
           generated[i].id # generated[j].id

\* ------------------------------------------------------------------ C6

\* Read off the documents of the model by hand: the text runs of each slide's
\* shapes, in element order then run order, with the shape that owns each.
\* (The text of r's table cell and of the shape inside r's group is not among
\* them.)
ShapeRuns(id) ==
    CASE id = "p" -> <<[ObjectID |-> "p_body", Text |-> Hello]>>
      [] id = "q" -> <<[ObjectID |-> "q_body", Text |-> World]>>
      [] id = "r" -> <<[ObjectID |-> "r_body", Text |-> <<"l", "o", " ">>],
                       [ObjectID |-> "r_body", Text |-> <<"W", "o">>]>>
      [] id = "t" -> <<[ObjectID |-> "t_title", Text |-> <<"h", "E", "L", "L", "O">>],
                       [ObjectID |-> "t_body", Text |-> <<"W", "O", "R", "K">>]>>
      [] OTHER -> <<>>

\* The same for extraction: each shape's runs joined, a line per shape.
ShapeLines(id) ==
    CASE id = "p" -> <<"H", "e", "l", "l", "o", "\n">>
      [] id = "q" -> <<"W", "o", "r", "l", "d", "\n">>
      [] id = "r" -> <<"l", "o", " ", "W", "o", "\n">>
      [] id = "t" -> <<"h", "E", "L", "L", "O", "\n", "W", "O", "R", "K", "\n">>
      [] OTHER -> <<>>

\* The delimiter that closes a slide: "\n---\n\n".
Delimiter == <<"\n", "-", "-", "-", "\n", "\n">>

ExtractAllTextDone == Done /\ cmd = "extract-all-text" /\ svc.status = "ok"

\* C6: ExtractAll visits the slides in snapshot order and appends the same
\* delimiter after every slide's text, the last slide included: the result is
\* the slides' texts in snapshot order, each followed by the delimiter.
C6_ExtractAllDelimitsEverySlideInOrder ==
    ExtractAllTextDone =>
        svc.value = Flatten([i \in 1..Len(FetchedSlides) |->
                                ShapeLines(FetchedSlides[i]) \o Delimiter])

\* Two slides, each with one text element of one run, "Hello" then "World":
\* the result is "Hello\n\n---\n\n" followed by "World\n\n---\n\n".
C6_Witness ==
    /\ ExtractAllTextDone
    /\ FetchedSlides = <<"p", "q">>
    /\ svc.value = <<"H", "e", "l", "l", "o", "\n", "\n", "-", "-", "-", "\n", "\n",
                     "W", "o", "r", "l", "d", "\n", "\n", "-", "-", "-", "\n", "\n">>
    /\ stdout = <<[kind |-> "text", value |-> svc.value]>>

\* ------------------------------------------------------------------ C7

\* Read off by hand: the run contents of the model's shapes that contain each
\* query of the model as a substring, letter case ignored.
Matching(query) ==
    CASE query \in {<<"w", "o", "r">>, <<"W", "O", "R">>} ->
            {World, <<"W", "O", "R", "K">>}
      [] query = <<"h", "e", "l", "l", "o">> -> {Hello, <<"h", "E", "L", "L", "O">>}
      [] query = <<>> ->
            {Hello, World, <<"l", "o", " ">>, <<"W", "o">>, <<"h", "E", "L", "L", "O">>,
             <<"W", "O", "R", "K">>}
      [] OTHER -> {}

\* The results expected for the slide at position i (from 1) of the snapshot.
ExpectedMatches(i, query) ==
    LET kept == SelectSeq(ShapeRuns(FetchedSlides[i]),
                          LAMBDA run : run.Text \in Matching(query))
    IN  [k \in 1..Len(kept) |->
            [SlideIndex |-> i - 1, ObjectID |-> kept[k].ObjectID, Text |-> kept[k].Text]]

SearchDone == Done /\ cmd = "search-text" /\ svc.status = "ok"

\* C7: Search returns one result per text run (of a shape's text body) whose
\* own content contains the query as a case-insensitive substring, in slide
\* order, then element order, then run order, each result carrying the slide
\* index, the owning element's identifier and the whole content of the run; a
\* query found only across the boundary of two adjacent runs ("lo wo" in "lo "
\* followed by "Wo") gives no result.
C7_SearchReturnsOneResultPerMatchingRun ==
    SearchDone =>
        svc.value = Flatten([i \in 1..Len(FetchedSlides) |->
                                ExpectedMatches(i, args.query)])

\* "wor" on a presentation that holds the run "World" on its second slide:
\* the result names that slide, the shape and the whole run.
C7_Witness ==
    /\ SearchDone
    /\ args.query = <<"w", "o", "r">>
    /\ Len(FetchedSlides) >= 2
    /\ FetchedSlides[2] = "q"
    /\ \E k \in 1..Len(svc.value) :
          svc.value[k] = [SlideIndex |-> 1, ObjectID |-> "q_body", Text |-> World]

\* ------------------------------------------------------------------ C8

\* Read off by hand: the slides that have a notes page, and each slide's
\* stored notes without the white space around them.
HasNotesPage(id) == id # "q"

TrimmedNotes(id) ==
    CASE id = "p" ->
            <<"r", "e", "m", "e", "m", "b", "e", "r", " ", "t", "h", "i", "s">>
      [] id = "s" -> <<"a", " ", " ", "b">>
      [] OTHER -> <<>>

\* The key "slide_<i>".
SlideLabel(i) ==
    <<"s", "l", "i", "d", "e", "_">> \o <<(<<"0", "1", "2", "3", "4", "5">>)[i + 1]>>

ExtractAllNotesDone == Done /\ cmd = "extract-all-notes" /\ svc.status = "ok"

\* C8: notes.ExtractAll maps the key "slide_<i>" to the trimmed concatenation
\* of the notes page's text runs for exactly the slide indices i whose notes
\* page exists and has text; a slide without a notes page has no key.
C8_ExtractAllNotesMapsTrimmedText ==
    ExtractAllNotesDone =>
        /\ DOMAIN svc.value =
              {SlideLabel(i - 1) : i \in {k \in 1..Len(FetchedSlides) :
                                             /\ HasNotesPage(FetchedSlides[k])
                                             /\ StoredNotes(FetchedSlides[k]) # <<>>}}
        /\ \A i \in 1..Len(FetchedSlides) :
              SlideLabel(i - 1) \in DOMAIN svc.value =>
                  svc.value[SlideLabel(i - 1)] = TrimmedNotes(FetchedSlides[i])

\* Slide 0 has the notes "  remember this  ", slide 1 has no notes page: the
\* result is exactly {"slide_0": "remember this"}.
C8_Witness ==
    /\ ExtractAllNotesDone
    /\ FetchedSlides = <<"p", "q">>
    /\ DOMAIN svc.value = {<<"s", "l", "i", "d", "e", "_", "0">>}
    /\ svc.value[<<"s", "l", "i", "d", "e", "_", "0">>] =
          <<"r", "e", "m", "e", "m", "b", "e", "r", " ", "t", "h", "i", "s">>

\* ------------------------------------------------------------------ C9

\* C9: notes.ExtractAll leaves out every slide whose notes are empty: no key
\* of the returned mapping maps to the empty string, also when the stored
\* notes are white space only.
C9_NoKeyMapsToEmptyString ==
    ExtractAllNotesDone => \A k \in DOMAIN svc.value : svc.value[k] # <<>>

\* ----------------------------------------------------------------- C10

\* The process wrote a success confirmation on the diagnostic output, or an
\* identifier, text or JSON on the primary output.
HasConfirmation == \E i \in 1..Len(stderr) : stderr[i].kind = "confirmation"

HasPayload == \E i \in 1..Len(stdout) : stdout[i].kind \in {"id", "text", "json"}

\* A remote call that the remote service refused.
CallFailed(c) == IF c.op = "Presentations.BatchUpdate" THEN ~c.accepted ELSE ~c.ok

\* The remote service rejected the submitted batch, or an earlier step of the
\* command failed: an argument did not parse or no service could be built
\* (the service method was never called), another remote call failed, or the
\* service method returned an error of its own.
SomeStepFailed ==
    \/ svc.status \in {"none", "error"}
    \/ \E i \in 1..Len(calls) : CallFailed(calls[i])

\* The commands whose service method submits a batch.
BatchCommands ==
    {"add-slide", "duplicate-slide", "remove-slide", "move-slide", "reorder-slides",
     "create-table", "update-cell", "style-cell", "replace-text", "add-notes",
     "add-shape"}

\* C10: for every command, when the remote service rejects the submitted
\* batch or an earlier step fails, the command returns an error and writes
\* neither a success confirmation on the diagnostic output nor an identifier,
\* text or JSON on the primary output; a command that writes any of these has
\* ended without error, every remote call it made succeeded, and, when it is
\* a command that submits a batch, the batch was submitted and accepted.
C10_OutputOnlyAfterSuccess ==
    Done =>
        /\ SomeStepFailed =>
              /\ exit.status = "error"
              /\ ~HasConfirmation
              /\ ~HasPayload
        /\ (HasConfirmation \/ HasPayload) =>
              /\ exit.status = "ok"
              /\ \A i \in 1..Len(calls) : ~CallFailed(calls[i])
              /\ cmd \in BatchCommands => (Len(Batches) = 1 /\ Batches[1].accepted)

\* The remote service rejects the batch of a reorder of valid indices: the
\* command returns the error and writes no confirmation.
C10_Witness ==
    /\ ReorderUsed
    /\ Len(Batches) = 1
    /\ ~Batches[1].accepted
    /\ Len(Batches[1].Requests) >= 2
    /\ exit = [status |-> "error", err |-> "error reordering slides"]
    /\ ~HasConfirmation
    /\ stdout = <<>>

\* ----------------------------------------------------------------- C11

\* slide.Add was called and submitted its batch.
AddSlideCalled == Done /\ cmd = "add-slide" /\ svc.status \in {"ok", "error"}

\* The request names an insertion position.  InsertionIndex is an integer
\* field of the request struct: one that was never assigned holds 0, as does
\* one that was assigned 0, and Add sets nothing else that tells them apart.
CarriesInsertionIndex(request) == request.InsertionIndex # 0

\* C11: slide.Add submits exactly one create-slide primitive with a newly
\* generated identifier and the requested layout; for every position >= 0,
\* 0 included, the primitive carries that position, and for a position < 0 it
\* carries none; on success the identifier returned is the one the primitive
\* carries.
C11_AddSlideCarriesPosition ==
    AddSlideCalled =>
        /\ Len(calls) = 1
        /\ Len(Batches) = 1
        /\ Len(Batches[1].Requests) = 1
        /\ LET request == Batches[1].Requests[1]
           IN  /\ request.kind = "CreateSlide"
               /\ request.PredefinedLayout = args.layout
               /\ args.position >= 0 =>
                     /\ CarriesInsertionIndex(request)
                     /\ request.InsertionIndex = args.position
               /\ args.position < 0 => ~CarriesInsertionIndex(request)
               /\ svc.status = "ok" => svc.value = request.ObjectId

\* ----------------------------------------------------------------- C12

\* notes.Add ran on a fetched snapshot with an index inside it.
AddNotesUsed == IndexUsed /\ cmd = "add-notes" /\ IndexInRange

\* The errors notes.Add returns of its own.
NotesUnavailable == "notes page not available"

NotesShapeNotFound == "notes shape not found"

\* Read off the documents of the model by hand: the slides without a notes
\* page or with one that has no elements, and the first element of each
\* slide's notes page that has a text body.
WithoutNotesElements(id) == id \in {"q", "t"}

FirstNotesTextBody(id) ==
    CASE id = "p" -> "p_speaker"
      [] id = "r" -> "r_speaker"
      [] id = "s" -> "s_speaker"
      [] OTHER -> ""

\* C12: with a valid index notes.Add aims its primitive at the first element
\* of the slide's notes page that has a text body; it fails with
\* NotesUnavailable when the slide has no notes page or the page has no
\* elements, and with NotesShapeNotFound when no element of the page has a
\* text body, and submits no batch in either failure.
C12_AddNotesTargetsFirstTextBody ==
    AddNotesUsed =>
        IF WithoutNotesElements(SlideAtIndex)
        THEN /\ exit = [status |-> "error", err |-> NotesUnavailable]
             /\ Batches = <<>>
        ELSE IF FirstNotesTextBody(SlideAtIndex) = ""
        THEN /\ exit = [status |-> "error", err |-> NotesShapeNotFound]
             /\ Batches = <<>>
        ELSE SubmittedOneAimedAt(FirstNotesTextBody(SlideAtIndex))

\* ----------------------------------------------------------------- C13

\* style-cell got a row and a column that parse.
StyleCellUsed == Done /\ cmd = "style-cell" /\ args.row.ok /\ args.col.ok

\* The colours of the model that are six hexadecimal digits after an
\* optional '#'.
WellFormedColors ==
    {<<"#", "F", "F", "0", "0", "0", "0">>, <<"0", "0", "f", "f", "7", "f">>}

\* C13: style-cell with a colour that is not exactly six hexadecimal digits
\* after an optional '#' fails with an error and submits no batch; with an
\* empty --bg-color it fails before any remote call.
C13_StyleCellRejectsBadColor ==
    StyleCellUsed =>
        /\ args.bgColor = <<>> =>
              /\ exit.status = "error"
              /\ calls = <<>>
              /\ svc.status = "none"
        /\ (args.bgColor # <<>> /\ args.bgColor \notin WellFormedColors
                /\ svc.status # "none") =>
              /\ exit.status = "error"
              /\ Batches = <<>>

\* ----------------------------------------------------------------- C14

\* Read off the documents of the model by hand: every text run of a slide's
\* element tree with the element that owns it; on slide r these are the runs
\* of the shape, of the table's cell and of the shape inside the group.
TreeRuns(id) ==
    IF id = "r"
    THEN ShapeRuns("r") \o <<[ObjectID |-> "r_table", Text |-> World],
                             [ObjectID |-> "r_child", Text |-> Hello]>>
    ELSE ShapeRuns(id)

\* C14: extraction and search cover every text run of a slide's element tree:
\* the text of table cells and of elements inside groups is part of what
\* ExtractAll returns, and Search returns a result for each such run that
\* contains the query.
C14_TextCoversWholeElementTree ==
    /\ ExtractAllTextDone =>
          \A i \in 1..Len(FetchedSlides) :
             \A k \in 1..Len(TreeRuns(FetchedSlides[i])) :
                Contains(svc.value, TreeRuns(FetchedSlides[i])[k].Text)
    /\ SearchDone =>
          \A i \in 1..Len(FetchedSlides) :
             \A k \in 1..Len(TreeRuns(FetchedSlides[i])) :
                LET run == TreeRuns(FetchedSlides[i])[k]
                IN  run.Text \in Matching(args.query) =>
                       \E j \in 1..Len(svc.value) :
                          svc.value[j] = [SlideIndex |-> i - 1, ObjectID |-> run.ObjectID,
                                          Text |-> run.Text]

\* ------------------------------------------- the credentials of one command

\* One command that needs one service and one that needs two, run against
\* every credentials directory: owner-only or not, the token file missing,
\* saved earlier, or there but not decodable.
InitAuth ==
    /\ remote = <<>>
    /\ tokenFile \in {[dir |-> d, file |-> f] :
                        d \in {"0700", "0755"},
                        f \in {NoFile, TokenFile("token", "0600"),
                               TokenFile("token", "0644"), TokenFile("garbage", "0644")}}
    /\ disk = [f \in {"old.out"} |-> OldFile]
    /\ pc = "ready"
    /\ cmd = ""
    /\ args = <<>>
    /\ calls = <<>>
    /\ svc = [status |-> "none", err |-> "", value |-> Nil]
    /\ exit = [status |-> "none", err |-> ""]
    /\ stdout = <<>>
    /\ stderr = <<>>
    /\ clock = 0
    /\ generated = <<>>
    /\ served = <<>>

NextAuth == runCreatePresentation \/ runCopyTheme

SpecAuth == InitAuth /\ [][NextAuth]_vars

\* ----------------------------------------------------------------- C15

\* The process prompted for an authorization code.
Prompted(out) == \E i \in 1..Len(out) : out[i].kind = "prompt"

\* A token that decodes is in the token file.
TokenCached(fs) == fs.file.exists /\ fs.file.content = "token"

ExportUsed ==
    Done /\ cmd \in {"export-pdf", "export-pptx"} /\ svc.status \in {"ok", "error"}

\* The two formats.
PdfMimeType == "application/pdf"

PptxMimeType ==
    "application/vnd.openxmlformats-officedocument.presentationml.presentation"

\* C16: ToPDF and ToPPTX request the export with the PDF MIME type and the
\* presentation-package MIME type respectively; on success the file at the
\* path the caller gave holds exactly the bytes of the export stream, in
\* order, in place of what it held before, and no other file has changed.
C16_ExportWritesStreamVerbatim ==
    ExportUsed =>
        /\ Len(calls) = 1
        /\ calls[1].op = "Files.Export"
        /\ calls[1].mimeType = (IF cmd = "export-pdf" THEN PdfMimeType ELSE PptxMimeType)
        /\ exit.status = "ok" =>
              /\ args.outputFile \in DOMAIN disk
              /\ disk[args.outputFile] = <<"%", "P", "D", "F">>
              /\ \A f \in DOMAIN disk : f # args.outputFile => disk[f] = <<"o", "l", "d">>

\* A PDF export onto a file that held something else: the file now holds the
\* stream.
C16_Witness ==
    /\ ExportUsed
    /\ cmd = "export-pdf"
    /\ exit.status = "ok"
    /\ args.outputFile = "old.out"
    /\ disk["old.out"] = <<"%", "P", "D", "F">>
    /\ calls = <<[op |-> "Files.Export", mimeType |-> "application/pdf", ok |-> TRUE]>>

\* ----------------------------------------------------------------- C17

\* C17: every batch that any operation submits holds at least one primitive:
\* no command ever calls BatchUpdate with an empty request list, whatever its
\* arguments (an empty reorder list included).
C17_NoEmptyBatch ==
    \A i \in 1..Len(calls) :
        calls[i].op = "Presentations.BatchUpdate" => Len(calls[i].Requests) >= 1

\* Reorder, whose batch is as long as its list, has submitted a batch for a
\* list of two indices.
C17_Witness ==
    /\ Done
    /\ cmd = "reorder-slides"
    /\ Len(args.list) = 2
    /\ Len(Batches) = 1
    /\ Len(Batches[1].Requests) = 2

\* ----------------------------------------------------------------- C18

\* The snapshot fetches of the command, in order.
Fetches == SelectSeq(calls, LAMBDA c : c.op = "Presentations.Get")

\* The service method of an index command, or Reorder, was called.
IndexCalled == Done /\ cmd \in IndexCommands /\ svc.status # "none"

ReorderCalled == Done /\ cmd = "reorder-slides" /\ svc.status # "none"

\* The object of the fetched snapshot that an index command's primitive has
\* to name: the slide at the index, or, for add-notes, a shape of that slide's
\* notes page.
ResolvedFromFetch ==
    IF cmd = "add-notes" THEN FirstNotesShape(SlideAtIndex) ELSE SlideAtIndex

\* C18: an operation that addresses a slide by index fetches the snapshot
\* exactly once, as its first remote call, before it resolves the index and
\* before it submits its batch; the identifier in the batch is the one found
\* in that fetch; a fetch that fails ends the operation with an error and no
\* batch.  Reorder, which parses its list first, fetches at most once, and
\* what it submits follows the same rule.
C18_FetchOnceBeforeBatch ==
    /\ IndexCalled =>
          /\ Len(Fetches) = 1
          /\ calls[1].op = "Presentations.Get"
          /\ Len(Batches) <= 1
          /\ Len(calls) = 1 + Len(Batches)
          /\ Batches # <<>> =>
                /\ calls[1].ok
                /\ \A k \in 1..Len(Batches[1].Requests) :
                      CarriedId(Batches[1].Requests[k]) = ResolvedFromFetch
          /\ ~calls[1].ok =>
                /\ exit.status = "error"
                /\ exit.err = "error getting presentation"
                /\ Batches = <<>>
    /\ ReorderCalled =>
          /\ Len(Fetches) <= 1
          /\ Len(Batches) <= 1
          /\ Len(calls) = Len(Fetches) + Len(Batches)
          /\ Batches # <<>> =>
                /\ calls[1].op = "Presentations.Get"
                /\ calls[1].ok
                /\ Len(Batches[1].Requests) = Len(args.list)
                /\ \A k \in 1..Len(args.list) :
                      CarriedId(Batches[1].Requests[k])
                          = FetchedSlides[args.list[k].n + 1]
          /\ (Fetches # <<>> /\ ~Fetches[1].ok) =>
                /\ exit.status = "error"
                /\ exit.err = "error getting presentation"
                /\ Batches = <<>>

\* A move of the second slide: one fetch, then one batch naming the slide
\* that the fetch shows at that position.
C18_Witness ==
    /\ IndexCalled
    /\ cmd = "move-slide"
    /\ GivenIndex = 1
    /\ Len(calls) = 2
    /\ calls[1].op = "Presentations.Get"
    /\ calls[2].op = "Presentations.BatchUpdate"
    /\ CarriedId(calls[2].Requests[1]) = calls[1].snapshot[2]

\* ----------------------------------------------------------------- C19

\* The static description with which each method wraps the error of a remote
\* call, read off the fmt.Errorf("...: %w", err) lines of the source.
WrappedAs(command, op) ==
    CASE op = "Presentations.Get" -> "error getting presentation"
      [] op = "Presentations.Create" -> "error creating presentation"
      [] op = "Files.Update" -> "error moving to folder"
      [] op = "Files.Export" ->
            IF command = "export-pdf" THEN "error exporting as PDF"
            ELSE "error exporting as PPTX"
      [] OTHER ->
            CASE command = "add-slide" -> "error adding slide"
              [] command = "duplicate-slide" -> "error duplicating slide"
              [] command = "remove-slide" -> "error removing slide"
              [] command = "move-slide" -> "error moving slide"
              [] command = "reorder-slides" -> "error reordering slides"
              [] command = "create-table" -> "error creating table"
              [] command = "update-cell" -> "error updating cell"
              [] command = "style-cell" -> "error styling cell"
              [] command = "replace-text" -> "error replacing text"
              [] command = "add-notes" -> "error adding notes"
              [] command = "add-shape" -> "error adding shape"
              [] OTHER -> "no batch in this command"

\* C19: no remote call is retried.  Within one command no kind of remote call
\* (snapshot fetch, batch submission, document creation, move to a folder,
\* export request) is attempted twice, and a remote call that fails is the
\* command's last: the command ends with the error that wraps that failure.
C19_NoRetryFirstFailureEnds ==
    Done =>
        /\ \A i, j \in 1..Len(calls) : i < j => calls[i].op # calls[j].op
        /\ \A i \in 1..Len(calls) :
              CallFailed(calls[i]) =>
                  /\ i = Len(calls)
                  /\ exit.status = "error"
                  /\ exit.err = WrappedAs(cmd, calls[i].op)
                  /\ svc.err = exit.err

\* Duplicate's batch was rejected after a successful fetch: two calls, the
\* command ended with the wrapped error.
C19_Witness ==
    /\ Done
    /\ cmd = "duplicate-slide"
    /\ Len(calls) = 2
    /\ calls[1].op = "Presentations.Get" /\ calls[1].ok
    /\ calls[2].op = "Presentations.BatchUpdate" /\ ~calls[2].accepted
    /\ exit = [status |-> "error", err |-> "error duplicating slide"]

\* ----------------------------------------------------------------- C20

StyleCommands == {"copy-text-style", "copy-theme", "translate-slides"}

\* C20: CopyTextStyle, CopyTheme and TranslateSlides do nothing.  Whatever
\* they are given, the step that runs one of them makes no remote call (no
\* snapshot fetch, no batch), leaves the remote document as it was and ends
\* without error, and the command writes its success confirmation.
C20_StyleOperationsAreNoOps ==
    [][(pc' = "done" /\ cmd' \in StyleCommands /\ svc'.status # "none") =>
          /\ calls' = <<>>
          /\ remote' = remote
          /\ svc' = [status |-> "ok", err |-> "", value |-> Nil]
          /\ exit' = [status |-> "ok", err |-> ""]
          /\ HasConfirmation'
          /\ ~HasPayload']_vars

\* translate-slides for a presentation that does not exist and no language:
\* nothing was called and the confirmation was written.
C20_Witness ==
    /\ Done
    /\ cmd = "translate-slides"
    /\ svc.status = "ok"
    /\ args.presentationID = "missing"
    /\ args.targetLanguage = ""
    /\ calls = <<>>
    /\ \E i \in 1..Len(stderr) :
          stderr[i] = [kind |-> "confirmation", text |-> "Slides translated"]

\* ----------------------------------------------------------------- C21

\* The indices of the reorder list, as the caller meant them.
ListedIndex(j) == args.list[j].n

\* Reorder's batch was accepted for a list of distinct indices of the fetched
\* snapshot, and the remote service has applied it.
ReorderServed ==
    /\ ReorderCalled
    /\ exit.status = "ok"
    /\ Len(args.list) >= 1
    /\ \A j \in 1..Len(args.list) :
          ListedIndex(j) >= 0 /\ ListedIndex(j) < Len(FetchedSlides)
    /\ \A i, j \in 1..Len(args.list) : i # j => ListedIndex(i) # ListedIndex(j)

\* The slides of the fetched snapshot that the list does not name, in the
\* order the snapshot has them.
Unlisted ==
    SelectSeq(FetchedSlides,
              LAMBDA id : \A j \in 1..Len(args.list) :
                              id # FetchedSlides[ListedIndex(j) + 1])

\* C21: with the remote service applying the repositions of a reorder batch
\* one after another, each insertion index counted in the arrangement before
\* that move, a list of distinct indices puts the slide that was at position
\* L[j] at position j, for every j of the list, and the slides that are not
\* listed follow in the order they had; for a permutation of 0..N-1 that is
\* the whole arrangement.
C21_ReorderYieldsListedOrder ==
    ReorderServed =>
        /\ Len(remote) = Len(FetchedSlides)
        /\ \A j \in 1..Len(args.list) : remote[j] = FetchedSlides[ListedIndex(j) + 1]
        /\ SubSeq(remote, Len(args.list) + 1, Len(remote)) = Unlisted

\* "2,0,1" on three slides: the third slide is first now, the first second,
\* the second third.
C21_Witness ==
    /\ ReorderServed
    /\ Len(FetchedSlides) = 3
    /\ Len(args.list) = 3
    /\ <<ListedIndex(1), ListedIndex(2), ListedIndex(3)>> = <<2, 0, 1>>
    /\ remote = <<FetchedSlides[3], FetchedSlides[1], FetchedSlides[2]>>
    /\ remote # FetchedSlides

\* A partial list: "2" on four slides brings the third slide to the front
\* and leaves the others in their order.
C21_PartialListCase ==
    /\ ReorderServed
    /\ Len(FetchedSlides) = 4
    /\ Len(args.list) = 1
    /\ ListedIndex(1) = 2
    /\ remote = <<FetchedSlides[3], FetchedSlides[1], FetchedSlides[2], FetchedSlides[4]>>

\* ----------------------------------------------------------------- C22

\* What another client may do to the document between a method's fetch and
\* its submission: nothing, remove any slide, create a slide "x" behind the
\* first one, or bring the last slide to the front.
OthersBatches(doc) ==
    {<<>>}
    \cup {<<<<[kind |-> "DeleteObject", ObjectId |-> doc[i]]>>>> : i \in 1..Len(doc)}
    \cup {<<<<[kind |-> "CreateSlide", ObjectId |-> "x", PredefinedLayout |-> "BLANK",
               InsertionIndex |-> 1]>>>>}
    \cup (IF Len(doc) < 2 THEN {}
          ELSE {<<<<[kind |-> "UpdateSlidesPosition", SlideObjectIds |-> <<doc[Len(doc)]>>,
                     InsertionIndex |-> 0]>>>>})

raceDuplicateSlide == \E others \in OthersBatches(remote) : runDuplicateSlideAmid(others)

raceRemoveSlide == \E others \in OthersBatches(remote) : runRemoveSlideAmid(others)

raceMoveSlide == \E others \in OthersBatches(remote) : runMoveSlideAmid(others)

NextRace == raceDuplicateSlide \/ raceRemoveSlide \/ raceMoveSlide

\* One duplicate, remove or move command with another client writing to the
\* same presentation between its fetch and its submission.
SpecRace == Init /\ [][NextRace]_vars

\* The method resolved an index of the snapshot it fetched and submitted its
\* batch.
RaceSubmitted ==
    /\ Done
    /\ cmd \in {"duplicate-slide", "remove-slide", "move-slide"}
    /\ svc.status \in {"ok", "error"}
    /\ Fetched
    /\ Len(Batches) = 1

OursAccepted == Batches[1].accepted

\* What the other client had the remote service do.
Theirs == IF OursAccepted THEN SubSeq(served, 1, Len(served) - 1) ELSE served

TheirKind == IF Theirs = <<>> THEN "none" ELSE Theirs[1][1].kind

\* The arrangement the batch arrived at, worked out by hand from the fetched
\* snapshot and the other client's request.
ArrivedAt ==
    CASE TheirKind = "DeleteObject" ->
            SelectSeq(FetchedSlides, LAMBDA id : id # Theirs[1][1].ObjectId)
      [] TheirKind = "CreateSlide" ->
            <<FetchedSlides[1], "x">> \o SubSeq(FetchedSlides, 2, Len(FetchedSlides))
      [] TheirKind = "UpdateSlidesPosition" ->
            <<FetchedSlides[Len(FetchedSlides)]>>
                \o SubSeq(FetchedSlides, 1, Len(FetchedSlides) - 1)
      [] OTHER -> FetchedSlides

StillThere(id) == \E i \in 1..Len(ArrivedAt) : ArrivedAt[i] = id

\* C22: when another writer removes, inserts or reorders slides between the
\* fetch and the submission of Remove, Duplicate or Move, the primitive names
\* the slide that held the index in the fetched snapshot.  If the batch is
\* accepted, that slide was still in the document and it is the slide acted
\* on (removed, copied right behind itself, or moved), every other slide
\* staying as the other writer left it; if the slide is gone, the batch is
\* rejected; a rejected batch changes nothing.
C22_RaceActsOnResolvedSlideOnly ==
    RaceSubmitted =>
        /\ Len(Batches[1].Requests) = 1
        /\ CarriedId(Batches[1].Requests[1]) = SlideAtIndex
        /\ OursAccepted =>
              /\ StillThere(SlideAtIndex)
              /\ cmd = "remove-slide" =>
                    remote = SelectSeq(ArrivedAt, LAMBDA id : id # SlideAtIndex)
              /\ cmd = "duplicate-slide" =>
                    /\ SelectSeq(remote, LAMBDA id : id # "copy") = ArrivedAt
                    /\ \E i \in 1..(Len(remote) - 1) :
                          remote[i] = SlideAtIndex /\ remote[i + 1] = "copy"
              /\ cmd = "move-slide" =>
                    /\ SelectSeq(remote, LAMBDA id : id # SlideAtIndex)
                          = SelectSeq(ArrivedAt, LAMBDA id : id # SlideAtIndex)
                    /\ Len(remote) = Len(ArrivedAt)
        /\ ~StillThere(SlideAtIndex) => ~OursAccepted /\ exit.status = "error"
        /\ ~OursAccepted => remote = ArrivedAt

\* The other writer removed the first slide before remove-slide 1 submitted
\* its batch: the slide that was second at the fetch is removed, not the one
\* that is second now.
C22_Witness ==
    /\ RaceSubmitted
    /\ cmd = "remove-slide"
    /\ GivenIndex = 1
    /\ Len(FetchedSlides) = 3
    /\ TheirKind = "DeleteObject"
    /\ Theirs[1][1].ObjectId = FetchedSlides[1]
    /\ OursAccepted
    /\ remote = <<FetchedSlides[3]>>

\* The other writer removed the very slide: the batch is rejected.
C22_SlideGoneCase ==
    /\ RaceSubmitted
    /\ cmd = "remove-slide"
    /\ TheirKind = "DeleteObject"
    /\ Theirs[1][1].ObjectId = SlideAtIndex
    /\ ~OursAccepted
    /\ exit = [status |-> "error", err |-> "error removing slide"]

\* ----------------------------------------------------------------- C23

\* The texts given to add-notes and update-cell.
GivenTexts == {Hello, World}

textAddNotes == \E notesContent \in GivenTexts : runAddNotesWith(notesContent)

textUpdateCell == \E text \in GivenTexts : runUpdateCellWith(text)

\* The next invocation of the program: a new process against the document
\* and the files the last one left.
nextCommand ==
    /\ pc = "done"
    /\ Len(served) < MaxServed
    /\ pc' = "ready"
    /\ cmd' = ""
    /\ args' = <<>>
    /\ calls' = <<>>
    /\ svc' = [status |-> "none", err |-> "", value |-> Nil]
    /\ exit' = [status |-> "none", err |-> ""]
    /\ stdout' = <<>>
    /\ stderr' = <<>>
    /\ UNCHANGED <<remote, tokenFile, disk, clock, generated, served>>

InitText ==
    /\ Init
    /\ Len(remote) = 2
    /\ tokenFile = CachedToken

NextText == textAddNotes \/ textUpdateCell \/ nextCommand

\* add-notes and update-cell commands one after another on a presentation of
\* two slides.
SpecText == InitText /\ [][NextText]_vars

\* The places add-notes and update-cell write to in the model's documents:
\* the first shape of each notes page, and the cell the command names.
TextTargets ==
    {[ObjectId |-> "p_speaker", CellLocation |-> Nil],
     [ObjectId |-> "r_speaker", CellLocation |-> Nil],
     [ObjectId |-> "s_bare", CellLocation |-> Nil],
     [ObjectId |-> "table_a", CellLocation |-> [RowIndex |-> 0, ColumnIndex |-> 1]]}

\* The text each of them held to begin with, read off the documents by hand.
OriginalText(target) ==
    CASE target.ObjectId = "p_speaker" -> RememberThis
      [] target.ObjectId = "r_speaker" -> <<"\n">>
      [] OTHER -> <<>>

\* Every request the remote service has served, in order, and the texts of
\* those aimed at `target`.
ServedRequests == Flatten(served)

AimedAt(target) ==
    SelectSeq(ServedRequests,
              LAMBDA request :
                  /\ request.ObjectId = target.ObjectId
                  /\ ("CellLocation" \in DOMAIN request) = (target.CellLocation # Nil))

\* C23: notes.Add and table.UpdateCell insert the given text at index 0 and
\* delete nothing: every request they have had served is an InsertText at
\* insertion index 0, and a target that received T1 and then T2 holds T2,
\* then T1, then the text it held before (after one call: T1, then the text
\* it held before).
C23_InsertsPrependAndKeep ==
    /\ \A i \in 1..Len(ServedRequests) :
          ServedRequests[i].kind = "InsertText" /\ ServedRequests[i].InsertionIndex = 0
    /\ \A target \in TextTargets :
          LET given == AimedAt(target)
              now == RemoteText(target, served)
          IN  /\ Len(given) = 0 => now = OriginalText(target)
              /\ Len(given) = 1 => now = given[1].Text \o OriginalText(target)
              /\ Len(given) = 2 =>
                    now = given[2].Text \o given[1].Text \o OriginalText(target)

\* add-notes 0 "Hello", then add-notes 0 "World", on a presentation whose
\* first slide is p: the notes shape holds "World", "Hello" and the notes it
\* had.
C23_Witness ==
    /\ Done
    /\ cmd = "add-notes"
    /\ exit.status = "ok"
    /\ Len(served) = 2
    /\ served[1][1].ObjectId = "p_speaker" /\ served[1][1].Text = Hello
    /\ served[2][1].ObjectId = "p_speaker" /\ served[2][1].Text = World
    /\ RemoteText([ObjectId |-> "p_speaker", CellLocation |-> Nil], served)
          = World \o Hello \o RememberThis

\* The same for a table cell: update-cell "World", then update-cell "Hello".
C23_CellCase ==
    /\ Done
    /\ cmd = "update-cell"
    /\ exit.status = "ok"
    /\ Len(served) = 2
    /\ served[1][1].ObjectId = "table_a" /\ served[1][1].Text = World
    /\ served[2][1].ObjectId = "table_a" /\ served[2][1].Text = Hello
    /\ RemoteText([ObjectId |-> "table_a",
                   CellLocation |-> [RowIndex |-> 0, ColumnIndex |-> 1]], served)
          = Hello \o World

\* ----------------------------------------------------------------- C24

CreateCalled == Done /\ cmd = "create-presentation" /\ svc.status # "none"

\* C24: presentation.Create with a folder is two remote calls, the creation
\* and then the move of the created document to the folder; without a folder,
\* or when the creation fails, it is the creation alone.  When the move fails
\* the document has been created all the same, Create returns the move's
\* error and no presentation, and the command prints neither an identifier
\* nor a confirmation.
C24_CreateThenMoveNotAtomic ==
    CreateCalled =>
        /\ calls[1].op = "Presentations.Create"
        /\ Len(calls) = (IF args.folder # "" /\ calls[1].ok THEN 2 ELSE 1)
        /\ Len(calls) = 2 =>
              /\ calls[2].op = "Files.Update"
              /\ calls[2].fileId = "new_presentation"
              /\ calls[2].AddParents = args.folder
              /\ ~calls[2].ok =>
                    /\ calls[1].ok
                    /\ svc = [status |-> "error", err |-> "error moving to folder",
                              value |-> Nil]
                    /\ exit = [status |-> "error", err |-> "error moving to folder"]
                    /\ ~HasPayload
                    /\ ~HasConfirmation
        /\ exit.status = "ok" =>
              \E i \in 1..Len(stdout) :
                  stdout[i] = [kind |-> "id", value |-> "new_presentation"]

\* The creation succeeded and the move failed: the document exists, the
\* command ended with the move's error and printed no identifier.
C24_Witness ==
    /\ CreateCalled
    /\ args.folder = "folder"
    /\ Len(calls) = 2
    /\ calls[1].ok
    /\ ~calls[2].ok
    /\ exit.err = "error moving to folder"
    /\ ~HasPayload

\* ----------------------------------------------------------------- C25

\* C25: in ToPDF and ToPPTX the export request comes before any file
\* operation.  A step in which the export request fails leaves every local
\* file as it was: the output path is not created when it did not exist and
\* keeps its content when it did.
C25_FailedExportTouchesNoFile ==
    [][(pc' = "done" /\ cmd' \in {"export-pdf", "export-pptx"}
        /\ Len(calls') >= 1 /\ ~calls'[1].ok) =>
          /\ disk' = disk
          /\ calls'[1].op = "Files.Export"
          /\ Len(calls') = 1
          /\ exit'.status = "error"
          /\ exit'.err = (IF cmd' = "export-pdf" THEN "error exporting as PDF"
                          ELSE "error exporting as PPTX")]_vars

\* A PDF export onto a new path failed at the export request: the path does
\* not exist.
C25_Witness ==
    /\ Done
    /\ cmd = "export-pdf"
    /\ calls = <<[op |-> "Files.Export", mimeType |-> "application/pdf", ok |-> FALSE]>>
    /\ args.outputFile = "new.out"
    /\ DOMAIN disk = {"old.out"}
    /\ disk["old.out"] = <<"o", "l", "d">>

\* The same onto the path that holds a file: the file keeps its content.
C25_ExistingFileCase ==
    /\ Done
    /\ cmd = "export-pptx"
    /\ Len(calls) = 1
    /\ ~calls[1].ok
    /\ args.outputFile = "old.out"
    /\ disk["old.out"] = <<"o", "l", "d">>

\* ----------------------------------------------------------------- C26

\* presentation.Service.Get called by a program that holds the services: no
\* command of the CLI calls it.
callPresentationGet ==
    /\ pc = "ready"
    /\ \E getOk \in BOOLEAN :
          Finish("presentation.Get", <<>>,
                 [err |-> "", stdout |-> <<>>, stderr |-> <<>>, token |-> tokenFile,
                  handshake |-> FALSE],
                 PresentationGet(remote, getOk), <<>>, <<>>)
    /\ UNCHANGED disk

NextRead ==
    \/ runExtractAllText
    \/ runSearchText
    \/ runGetNotes
    \/ runExtractAllNotes
    \/ callPresentationGet

\* One of the operations that only read the presentation.
SpecRead == Init /\ [][NextRead]_vars

ReadOnlyOperations ==
    {"extract-all-text", "search-text", "get-notes", "extract-all-notes",
     "presentation.Get"}

\* C26: text.ExtractAll, text.Search, notes.Get, notes.ExtractAll and
\* presentation.Get only read.  A step that runs one of them makes exactly
\* one remote call, a snapshot fetch (no batch, no document creation), and
\* leaves the remote document and the batches it has served as they were.
C26_ReadOnlyOperationsFetchOnce ==
    [][(pc' = "done" /\ cmd' \in ReadOnlyOperations /\ svc'.status # "none") =>
          /\ Len(calls') = 1
          /\ calls'[1].op = "Presentations.Get"
          /\ calls'[1].ok => calls'[1].snapshot = remote
          /\ remote' = remote
          /\ served' = served]_vars

\* presentation.Get returned the snapshot of a presentation of three slides
\* after one fetch.
C26_Witness ==
    /\ Done
    /\ cmd = "presentation.Get"
    /\ svc.status = "ok"
    /\ Len(svc.value.Slides) = 3
    /\ calls = <<[op |-> "Presentations.Get", ok |-> TRUE, snapshot |-> remote]>>
    /\ served = <<>>

\* ----------------------------------------------------------------- C27

\* The service method of a command that edits the presentation was called.
MutatingCalled == Done /\ cmd \in BatchCommands /\ svc.status # "none"

\* The errors the service methods raise from their own checks of the input
\* against the fetched snapshot.
LocalValidationErrors ==
    {"slide index out of range", "invalid index", "slide index %d out of range",
     "notes page not available", "notes shape not found"}

\* Read off the input by hand: the index names no slide of the fetched
\* snapshot, the reorder list has a token that is no integer or an index
\* that names no slide, or the slide that add-notes names has no notes page.
InputInvalid ==
    \/ /\ cmd \in IndexCommands
       /\ args.slideIndex.ok
       /\ Fetched
       /\ \/ ~IndexInRange
          \/ cmd = "add-notes" /\ ~HasNotesPage(SlideAtIndex)
    \/ /\ cmd = "reorder-slides"
       /\ \/ ~ListWellFormed
          \/ Fetched /\ ~ListInRange

\* C27: an operation that edits the presentation submits at most one batch
\* per call; when it returns success it has submitted exactly one, which the
\* remote service accepted; when it returns an error of its local validation
\* (index out of range, malformed list, missing notes page), and whenever
\* the input is invalid in one of these ways, it has submitted none.
C27_AtMostOneBatchPerCall ==
    MutatingCalled =>
        /\ Len(Batches) <= 1
        /\ svc.status = "ok" => (Len(Batches) = 1 /\ Batches[1].accepted)
        /\ (svc.status = "error" /\ svc.err \in LocalValidationErrors) => Batches = <<>>
        /\ InputInvalid => (Batches = <<>> /\ svc.status # "ok")

\* add-shape with an index one past the last slide of a presentation of
\* three slides: the range error, the fetch and no batch.
C27_Witness ==
    /\ MutatingCalled
    /\ cmd = "add-shape"
    /\ Len(FetchedSlides) = 3
    /\ GivenIndex = 3
    /\ svc.status = "error"
    /\ svc.err = "slide index out of range"
    /\ Len(calls) = 1
    /\ Batches = <<>>

\* add-notes on the slide without notes page: no batch either.
C27_MissingNotesPageCase ==
    /\ MutatingCalled
    /\ cmd = "add-notes"
    /\ Fetched
    /\ args.slideIndex.ok
    /\ IndexInRange
    /\ ~HasNotesPage(SlideAtIndex)
    /\ svc.err = "notes page not available"
    /\ Batches = <<>>

\* reorder-slides with a token that is no integer: no batch.
C27_MalformedListCase ==
    /\ MutatingCalled
    /\ cmd = "reorder-slides"
    /\ ~ListWellFormed
    /\ svc.status = "error"
    /\ Batches = <<>>

\* A successful call with its one accepted batch.
C27_SuccessCase ==
    /\ MutatingCalled
    /\ cmd = "create-table"
    /\ svc.status = "ok"
    /\ Len(Batches) = 1
    /\ Batches[1].accepted

\* ----------------------------------------------------------------- C28

\* The lines with which getTokenFromWeb opens a handshake, and the lines with
\* which saveToken announces itself.
LinkPrompts ==
    SelectSeq(stdout, LAMBDA line : line.kind = "prompt"
                                    /\ line.text = "Go to the following link in your browser")

CodePrompts ==
    SelectSeq(stdout, LAMBDA line : line.kind = "prompt"
                                    /\ line.text = "Enter authorization code")

SaveNotices == SelectSeq(stderr, LAMBDA line : line.kind = "info")

\* create-presentation ran: GetSlidesService, then GetDriveService.
TwoServicesCommand == Done /\ cmd = "create-presentation"

\* C28: create-presentation, which builds two services with one GetClient
\* each, goes through the authorization handshake at most once: it prompts at
\* most once and saves at most once; when it prompted and both services were
\* built, the first GetClient saved the token, the token file holds it, and
\* the second GetClient loaded it without a prompt.
C28_HandshakeAtMostOncePerCommand ==
    TwoServicesCommand =>
        /\ Len(LinkPrompts) <= 1
        /\ Len(CodePrompts) <= 1
        /\ Len(SaveNotices) <= 1
        /\ (Prompted(stdout) /\ svc.status # "none") =>
              /\ Len(LinkPrompts) = 1
              /\ Len(SaveNotices) = 1
              /\ TokenCached(tokenFile)

\* create-presentation without a cached token: one handshake, the token
\* saved in a new file, both services built and the presentation created.
C28_Witness ==
    /\ TwoServicesCommand
    /\ Len(LinkPrompts) = 1
    /\ Len(CodePrompts) = 1
    /\ Len(SaveNotices) = 1
    /\ tokenFile.file = TokenFile("token", "0600")
    /\ svc.status = "ok"
    /\ exit.status = "ok"
    /\ \E i \in 1..Len(calls) : calls[i].op = "Presentations.Create"

\* ----------------------------------------------------------------- C29

\* What notes.Get and notes.ExtractAll return on the snapshot that the
\* command at hand fetched.
GetOnFetched(i) == NotesGet(FetchedSlides, TRUE, i)

ExtractAllOnFetched == NotesExtractAll(FetchedSlides, TRUE).value

\* The two results agree for index i: a key "slide_<i>" maps to the trimmed
\* result of Get(i); without a key, Get(i) returns the empty string and no
\* error.
NotesAgree(all, got, i) ==
    /\ got.status = "ok"
    /\ got.err = ""
    /\ IF SlideLabel(i) \in DOMAIN all
       THEN all[SlideLabel(i)] = TrimSpace(got.value)
       ELSE got.value = <<>>

\* C29: on one snapshot, notes.Get and notes.ExtractAll agree for every valid
\* slide index i: when ExtractAll has the key "slide_<i>" its value is the
\* trimmed result of Get(i), and when it has no such key Get(i) returns the
\* empty string without an error, also for a slide without notes page, for
\* which Add returns 'notes page not available'.
C29_GetAndExtractAllAgree ==
    /\ ExtractAllNotesDone =>
          \A i \in 0..(Len(FetchedSlides) - 1) :
             /\ NotesAgree(svc.value, GetOnFetched(i), i)
             /\ ~HasNotesPage(FetchedSlides[i + 1]) =>
                   /\ SlideLabel(i) \notin DOMAIN svc.value
                   /\ GetOnFetched(i).value = <<>>
    /\ (IndexUsed /\ IndexInRange /\ cmd = "get-notes") =>
          /\ NotesAgree(ExtractAllOnFetched, svc, GivenIndex)
          /\ svc.value = StoredNotes(SlideAtIndex)
    /\ (IndexUsed /\ IndexInRange /\ cmd = "add-notes" /\ ~HasNotesPage(SlideAtIndex)) =>
          /\ svc.status = "error"
          /\ svc.err = "notes page not available"
          /\ GetOnFetched(GivenIndex).status = "ok"

\* extract-all-notes on the slides p, q, r: keys for p (trimmed notes) and r
\* (white space only, trimmed to nothing), none for q, which has no notes
\* page and for which Get returns the empty string.
C29_Witness ==
    /\ ExtractAllNotesDone
    /\ FetchedSlides = <<"p", "q", "r">>
    /\ DOMAIN svc.value = {SlideLabel(0), SlideLabel(2)}
    /\ svc.value[SlideLabel(0)] = TrimmedNotes("p")
    /\ GetOnFetched(0).value = StoredNotes("p")
    /\ GetOnFetched(0).value # svc.value[SlideLabel(0)]
    /\ GetOnFetched(1) = Returned(<<>>, <<GetCall(FetchedSlides)>>)
    /\ GetOnFetched(2).value = <<"\n">>
    /\ svc.value[SlideLabel(2)] = <<>>

\* get-notes on the slide without notes page: the empty string, no error.
C29_NoNotesPageCase ==
    /\ IndexUsed
    /\ IndexInRange
    /\ cmd = "get-notes"
    /\ ~HasNotesPage(SlideAtIndex)
    /\ svc.status = "ok"
    /\ svc.value = <<>>
    /\ exit.status = "ok"
    /\ SlideLabel(GivenIndex) \notin DOMAIN ExtractAllOnFetched

====
